---- MODULE Spec2Model ----
(***************************************************************************)
(* A model of ndevio's reader-plugin resolution:                           *)
(*   - the plugin registry and the extension resolver                      *)
(*     (src/ndevio/_bioio_plugin_utils.py),                                *)
(*   - the ReaderPluginManager (src/ndevio/_plugin_manager.py),            *)
(*   - the construction of an nImage with its reader fallback              *)
(*     (src/ndevio/nimage.py).                                             *)
(*                                                                         *)
(* A file name is the sequence of its dot-separated segments, so that      *)
(* "stack.tiles.ome.tif" is <<"stack", "tiles", "ome", "tif">>; an          *)
(* extension is the sequence of the segments after its leading dot, so     *)
(* that ".ome.tif" is <<"ome", "tif">>.  A Python dict is a function whose *)
(* domain is its set of keys.                                              *)
(***************************************************************************)
EXTENDS Naturals, Sequences, FiniteSets, TLC

VARIABLES
    registry,      \* the module-level dict BIOIO_PLUGINS
    ext_index,     \* the module-level dict _EXTENSION_TO_PLUGIN
    path,          \* the path the resolver is applied to
    op,            \* the last operation that ran
    result,        \* what the last suggest_plugins_for_path call returned
    prev_result,   \* what the call before it on the same path returned
    report,        \* the feasibility report passed to the message function
    msg,           \* what get_missing_plugins_message returned
    calls,         \* number of resolver calls made so far
    mgr_path,      \* ReaderPluginManager.path (NoPath for None)
    mgr_cache,     \* the cached_property feasibility_report of the manager
    mgr_op,        \* the last property of the manager that was read
    mgr_ret,       \* what that read returned or raised
    eco_calls,     \* calls of bioio.plugin_feasibility_report so far
    mgr_arg,       \* the preferred_reader argument of the last manager call
    unimportable,  \* the plugins whose module import raises ImportError
    report_path,   \* the path bioio was asked about for the cached report
    image,         \* the image argument of nImage(image, reader)
    reader,        \* the reader argument of nImage(image, reader)
    settings,      \* ndev_settings: preferred_reader, suggest_reader_plugins
    env_installed, \* the reader plugins installed in the environment
    pc,            \* where nImage.__init__ stands
    attempts,      \* the BioImage.__init__ calls made so far, with their outcomes
    raised,        \* the exception that left nImage.__init__
    instance,      \* the instance state of the nImage, once opened
    selected_reader, \* the plugin of the Reader class bioio selected for it
    compat_calls,  \* calls of apply_ome_zarr_compat_patches made so far
    nimg,          \* the opened nImage whose layers are built
    _layer_data,   \* nImage._layer_data, the cached xarray (or None)
    layer_op,      \* the last layer operation that ran
    layer_args,    \* the arguments of that operation
    layer_ret,     \* what it returned or raised
    layer_log,     \* the OME metadata warnings that operation logged
    rd_input,      \* the arguments of napari_get_reader, and what the path holds
    rd_pc,         \* where the napari reader stands
    rd_reader,     \* what napari_get_reader returned: None or the reader function
    rd_visited,    \* the scenes napari_reader_function has set, in order
    rd_calls,      \* the scene whose records each get_layer_data_tuples call built
    rd_layers,     \* layer_list, and in the end what the reader function returned
    rd_docked,     \* scene widgets docked in the viewer so far
    rd_opened,     \* nImage constructions so far
    rd_exc,        \* the exception that left the reader function
    wg_pc,         \* whether the installer widget is open
    wg_select,     \* the value of the widget's plugin ComboBox ("" for None)
    wg_status,     \* the value of the widget's status label
    wg_handlers,   \* the on_process_finished closures made so far
    wg_calls,      \* the calls made on the installer queue by the button, in order
    wg_event,      \* the completion event the queue is emitting
    wg_pending,    \* the handlers that emission has still to call
    wg_exc         \* the exception that left the last widget handler

resolver_vars == <<registry, ext_index, path, op, result, prev_result, report, msg, calls>>

manager_vars == <<mgr_path, mgr_cache, mgr_op, mgr_ret, eco_calls, mgr_arg, unimportable,
                 report_path>>

image_vars == <<image, reader, settings, env_installed, pc, attempts, raised, instance,
               selected_reader, compat_calls>>

layer_vars == <<nimg, _layer_data, layer_op, layer_args, layer_ret, layer_log>>

reader_vars == <<rd_input, rd_pc, rd_reader, rd_visited, rd_calls, rd_layers, rd_docked,
                 rd_opened, rd_exc>>

widget_vars == <<wg_pc, wg_select, wg_status, wg_handlers, wg_calls, wg_event, wg_pending,
                 wg_exc>>

front_vars == <<reader_vars, widget_vars>>

vars == <<resolver_vars, manager_vars, image_vars, layer_vars, front_vars>>

\* The napari reader while it is not in use.
ReaderIdle ==
    /\ rd_input = <<>>
    /\ rd_pc = "idle"
    /\ rd_reader = <<>>
    /\ rd_visited = <<>>
    /\ rd_calls = <<>>
    /\ rd_layers = <<>>
    /\ rd_docked = 0
    /\ rd_opened = 0
    /\ rd_exc = ""

\* The installer widget while it is not in use.
WidgetIdle ==
    /\ wg_pc = "idle"
    /\ wg_select = ""
    /\ wg_status = [kind |-> "empty", plugin |-> "", exit_code |-> 0]
    /\ wg_handlers = <<>>
    /\ wg_calls = <<>>
    /\ wg_event = [emitting |-> FALSE]
    /\ wg_pending = <<>>
    /\ wg_exc = ""

\* The napari front end while it is not in use.
FrontIdle == ReaderIdle /\ WidgetIdle

----------------------------------------------------------------------------
(* Bounds of the model.                                                    *)

\* Longest run of free segments after the stem of a generated file name.
MaxSegs == 3

\* Largest number of entries of a generated feasibility report.
MaxReport == 2

\* Largest number of resolver calls in one behaviour.
MaxCalls == 3

----------------------------------------------------------------------------
(* Sequences and strings.                                                  *)

Range(s) == {s[i] : i \in DOMAIN s}

\* The segments of the model that hold letters, each with its upper-case form.
UpperCasePairs ==
    { <<"czi", "CZI">>, <<"dv", "DV">>, <<"r3d", "R3D">>, <<"bmp", "BMP">>,
      <<"gif", "GIF">>, <<"jpg", "JPG">>, <<"jpeg", "JPEG">>, <<"png", "PNG">>,
      <<"lif", "LIF">>, <<"nd2", "ND2">>, <<"ome", "OME">>, <<"tif", "TIF">>,
      <<"tiff", "TIFF">>, <<"tiles", "TILES">>, <<"zarr", "ZARR">>,
      <<"sldy", "SLDY">>, <<"dir", "DIR">>, <<"oib", "OIB">>, <<"oif", "OIF">>,
      <<"vsi", "VSI">>, <<"ims", "IMS">>, <<"lsm", "LSM">>, <<"stk", "STK">>,
      <<"xyz", "XYZ">>, <<"stack", "STACK">> }

\* Mixed-case spellings, each with its lower-case form first.
MixedCasePairs == { <<"tiff", "Tiff">>, <<"tiles", "Tiles">>, <<"stack", "Stack">> }

\* str.lower() on one segment.
LowerSeg(s) ==
    IF \E pr \in UpperCasePairs \cup MixedCasePairs : pr[2] = s
    THEN (CHOOSE pr \in UpperCasePairs \cup MixedCasePairs : pr[2] = s)[1]
    ELSE s

\* str.upper() on one segment.
UpperSeg(s) ==
    IF \E pr \in UpperCasePairs : pr[1] = LowerSeg(s)
    THEN (CHOOSE pr \in UpperCasePairs : pr[1] = LowerSeg(s))[2]
    ELSE s

\* str.upper() on a name or a suffix.
Upper(segs) == [i \in 1..Len(segs) |-> UpperSeg(segs[i])]

\* str.lower() on a name or a suffix.
Lower(segs) == [i \in 1..Len(segs) |-> LowerSeg(segs[i])]

\* filename.endswith(ext): ext starts with a dot, so the name must hold one
\* more segment (possibly the empty one) before the segments of ext.
EndsWith(segs, ext) ==
    /\ Len(segs) > Len(ext)
    /\ SubSeq(segs, Len(segs) - Len(ext) + 1, Len(segs)) = ext

\* pathlib's PurePath.suffix of a name: the last segment, unless the name has
\* no dot or its only dot is the leading one (".tif" has no suffix).
PathSuffix(segs) ==
    IF Len(segs) < 2 \/ (Len(segs) = 2 /\ segs[1] = "")
    THEN <<>>
    ELSE <<segs[Len(segs)]>>

\* pathlib's PurePath.name: the last component; the directory plays no part.
PathName(p) == p.name

----------------------------------------------------------------------------
(* The plugin registry.                                                    *)

\* The keys of BIOIO_PLUGINS in declaration (dict insertion) order.
PluginOrder ==
    << "bioio-czi", "bioio-dv", "bioio-imageio", "bioio-lif", "bioio-nd2",
       "bioio-ome-tiff", "bioio-ome-tiled-tiff", "bioio-ome-zarr",
       "bioio-sldy", "bioio-tifffile", "bioio-tiff-glob", "bioio-bioformats" >>

PluginNames == Range(PluginOrder)

BIOIO_PLUGINS ==
    [p \in PluginNames |->
        CASE p = "bioio-czi" ->
               [extensions |-> << <<"czi">> >>,
                description |-> "Zeiss CZI files",
                repository |-> "https://github.com/bioio-devs/bioio-czi"]
          [] p = "bioio-dv" ->
               [extensions |-> << <<"dv">>, <<"r3d">> >>,
                description |-> "DeltaVision files",
                repository |-> "https://github.com/bioio-devs/bioio-dv"]
          [] p = "bioio-imageio" ->
               [extensions |-> << <<"bmp">>, <<"gif">>, <<"jpg">>, <<"jpeg">>, <<"png">> >>,
                description |-> "Generic image formats (PNG, JPG, etc.)",
                repository |-> "https://github.com/bioio-devs/bioio-imageio",
                core |-> TRUE]
          [] p = "bioio-lif" ->
               [extensions |-> << <<"lif">> >>,
                description |-> "Leica LIF files",
                repository |-> "https://github.com/bioio-devs/bioio-lif"]
          [] p = "bioio-nd2" ->
               [extensions |-> << <<"nd2">> >>,
                description |-> "Nikon ND2 files",
                repository |-> "https://github.com/bioio-devs/bioio-nd2"]
          [] p = "bioio-ome-tiff" ->
               [extensions |-> << <<"ome", "tif">>, <<"ome", "tiff">>, <<"tif">>, <<"tiff">> >>,
                description |-> "OME-TIFF files with valid OME-XML metadata",
                repository |-> "https://github.com/bioio-devs/bioio-ome-tiff",
                core |-> TRUE]
          [] p = "bioio-ome-tiled-tiff" ->
               [extensions |-> << <<"tiles", "ome", "tif">> >>,
                description |-> "Tiled OME-TIFF files",
                repository |-> "https://github.com/bioio-devs/bioio-ome-tiled-tiff"]
          [] p = "bioio-ome-zarr" ->
               [extensions |-> << <<"zarr">> >>,
                description |-> "OME-Zarr files",
                repository |-> "https://github.com/bioio-devs/bioio-ome-zarr",
                core |-> TRUE]
          [] p = "bioio-sldy" ->
               [extensions |-> << <<"sldy">>, <<"dir">> >>,
                description |-> "3i SlideBook files",
                repository |-> "https://github.com/bioio-devs/bioio-sldy"]
          [] p = "bioio-tifffile" ->
               [extensions |-> << <<"tif">>, <<"tiff">> >>,
                description |-> "TIFF files (including those without OME metadata)",
                repository |-> "https://github.com/bioio-devs/bioio-tifffile"]
          [] p = "bioio-tiff-glob" ->
               [extensions |-> << <<"tiff">> >>,
                description |-> "TIFF sequences (glob patterns)",
                repository |-> "https://github.com/bioio-devs/bioio-tiff-glob"]
          [] p = "bioio-bioformats" ->
               [extensions |-> << <<"oib">>, <<"oif">>, <<"vsi">>, <<"ims">>, <<"lsm">>, <<"stk">> >>,
                description |-> "Proprietary microscopy formats (requires Java)",
                repository |-> "https://github.com/bioio-devs/bioio-bioformats",
                note |-> "Requires Java Runtime Environment"]]

\* Every extension some plugin of reg declares.
RegisteredExtensions(reg) == UNION {Range(reg[p].extensions) : p \in PluginNames}

\* The loop that fills _EXTENSION_TO_PLUGIN at import: plugins in declaration
\* order, each appended to the list of every extension it declares.
_EXTENSION_TO_PLUGIN ==
    [e \in RegisteredExtensions(BIOIO_PLUGINS) |->
        SelectSeq(PluginOrder, LAMBDA p : e \in Range(BIOIO_PLUGINS[p].extensions))]

\* dict.get(key, default) on a plugin info dict.
InfoGet(info, key, default) == IF key \in DOMAIN info THEN info[key] ELSE default

\* A variant that takes no plugin for a core plugin.
NeverCore(info) == FALSE

IsCore(info) == InfoGet(info, "core", FALSE)

----------------------------------------------------------------------------
(* suggest_plugins_for_path                                                *)

\* info.copy() followed by result["name"] = plugin_name: the returned dict.
WithName(info, plugin_name) ==
    [k \in DOMAIN info \cup {"name"} |-> IF k = "name" THEN plugin_name ELSE info[k]]

\* A variant that writes the name into the registry's own dict (no copy).
StoreAfterAlias(reg, plugin_name) ==
    [reg EXCEPT ![plugin_name] = WithName(reg[plugin_name], plugin_name)]

\* The registry after one returned entry was built: the entry is a copy, so
\* the registry's own dict is left as it was.
StoreAfterCopy(reg, plugin_name) == reg

\* A variant that asks for one more dot before an extension counts as compound.
IsCompoundThreeDots(ext) == Len(ext) + 1 > 3

\* "Compound extension: multiple dots": len(ext.split(".")) > 2, where the
\* split of ".ome.tif" is ['', 'ome', 'tif'].
IsCompound(ext) == Len(ext) + 1 > 2

\* The first pass: the plugins, in declaration order, one of whose compound
\* extensions the lower-cased file name ends with; the loop returns at the
\* first of them.
CompoundMatch(reg, filename) ==
    LET hits == SelectSeq(PluginOrder,
                    LAMBDA p : \E i \in DOMAIN reg[p].extensions :
                        /\ IsCompound(reg[p].extensions[i])
                        /\ EndsWith(filename, reg[p].extensions[i]))
    IN  IF hits = <<>> THEN <<>> ELSE <<Head(hits)>>

\* The second pass: the index entry of the path's lower-cased suffix.
SimpleMatch(idx, file_ext) ==
    IF file_ext \in DOMAIN idx THEN idx[file_ext] ELSE <<>>

\* The names of the plugins the function returns, in order.
SuggestedNames(reg, idx, p) ==
    LET filename == Lower(PathName(p))
        compound == CompoundMatch(reg, filename)
    IN  IF compound # <<>>
        THEN compound
        ELSE SimpleMatch(idx, Lower(PathSuffix(PathName(p))))

\* Which pass produced the answer.
SuggestBranch(reg, idx, p) ==
    IF CompoundMatch(reg, Lower(PathName(p))) # <<>> THEN "compound" ELSE "simple"

\* The list of plugin info dicts the function returns.
suggest_plugins_for_path(reg, idx, p) ==
    LET names == SuggestedNames(reg, idx, p)
    IN  [i \in 1..Len(names) |-> WithName(reg[names[i]], names[i])]

RECURSIVE RegistryAfter(_, _)
\* The registry once every returned entry has been built.
RegistryAfter(reg, names) ==
    IF names = <<>> THEN reg
    ELSE RegistryAfter(StoreAfterCopy(reg, Head(names)), Tail(names))

\* The names of a list of plugin info dicts.
NamesOf(plugins) == [i \in 1..Len(plugins) |-> plugins[i].name]

----------------------------------------------------------------------------
(* Feasibility reports and get_missing_plugins_message                     *)

\* The argument feasibility_report=None.
NoReport == [given |-> FALSE, entries |-> <<>>]

\* "if not feasibility_report": None and the empty dict are both falsy.
ReportFalsy(r) == ~r.given \/ DOMAIN r.entries = {}

\* _get_installed_plugins: the names of the report, without "ArrayLike".
_get_installed_plugins(r) ==
    IF ReportFalsy(r) THEN {} ELSE {name \in DOMAIN r.entries : name # "ArrayLike"}

\* A variant that leaves the installed plugins in the list.
FilterNothing(suggested, r) == suggested

\* _filter_installed_plugins: the suggested plugins that are not installed.
_filter_installed_plugins(suggested, r) ==
    IF ReportFalsy(r)
    THEN suggested
    ELSE SelectSeq(suggested, LAMBDA q : q.name \notin _get_installed_plugins(r))

\* The names a report of the model may hold, in the order sorted() gives them
\* (upper-case letters sort before lower-case ones).
SortedNames ==
    << "ArrayLike", "bioio-czi", "bioio-ome-tiff", "bioio-ome-tiled-tiff", "bioio-tifffile" >>

\* sorted(names)
Sorted(names) == SelectSeq(SortedNames, LAMBDA n : n \in names)

\* One piece of a message: its kind and its text, a sequence of strings.
Piece(k, v) == [k |-> k, v |-> v]

\* The lines _format_plugin_list writes for one plugin.
PluginLines(plugin) ==
    << Piece("bullet", <<plugin.name>>), Piece("description", <<plugin.description>>) >>
    \o (IF InfoGet(plugin, "note", "") # ""
        THEN << Piece("note", <<plugin.note>>) >>
        ELSE <<>>)
    \o << Piece("Install: pip install", <<plugin.name>>) >>

RECURSIVE JoinLines(_)
JoinLines(plugins) ==
    IF plugins = <<>> THEN <<>> ELSE PluginLines(Head(plugins)) \o JoinLines(Tail(plugins))

\* A variant that writes the lines of the core plugins too.
FormatEveryPlugin(plugins) == JoinLines(plugins)

\* _format_plugin_list: the non-core plugins, each with its install line;
\* the empty string when there is none.
_format_plugin_list(plugins) ==
    JoinLines(SelectSeq(plugins, LAMBDA q : ~IsCore(q)))

\* A variant that answers an unknown extension like a known one.
MessageWithoutEmptyCase(reg, idx, p, r) ==
    << Piece("Required plugins for", PathName(p)),
       Piece("should already be installed", <<>>) >>

\* get_missing_plugins_message
get_missing_plugins_message(reg, idx, p, r) ==
    LET suggested == suggest_plugins_for_path(reg, idx, p)
        installed == _get_installed_plugins(r)
        missing_plugins   == IF ~ReportFalsy(r)
                             THEN _filter_installed_plugins(suggested, r)
                             ELSE suggested
        plugin_list       == _format_plugin_list(missing_plugins)
    IN  IF suggested = <<>>
        THEN << Piece("No bioio plugins found for", PathName(p)),
                Piece("extension", PathSuffix(PathName(p))),
                Piece("See https://github.com/bioio-devs/bioio for available plugins.", <<>>) >>
        ELSE IF installed # {} /\ missing_plugins # <<>> /\ plugin_list # <<>>
        THEN << Piece("Installed plugin", Sorted(installed)),
                Piece("failed to read", PathName(p)),
                Piece("Try one of these alternatives:", <<>>) >>
             \o plugin_list
             \o << Piece("Restart napari/Python after installing.", <<>>) >>
        ELSE IF installed # {} /\ missing_plugins = <<>>
        THEN << Piece("File", PathName(p)),
                Piece("is supported by", Sorted(installed)),
                Piece("However, the plugin failed to read it.", <<>>),
                Piece("This may indicate a corrupt file or incompatible format variant.", <<>>) >>
        ELSE IF plugin_list # <<>>
        THEN << Piece("To read", PathName(p)),
                Piece("install one of:", <<>>) >>
             \o plugin_list
             \o << Piece("Restart napari/Python after installing.", <<>>) >>
        ELSE << Piece("Required plugins for", PathName(p)),
                Piece("should already be installed", <<>>),
                Piece("check your installation or open an issue at https://github.com/ndev-kit/ndevio", <<>>) >>

\* The plugins a message has an 'Install: pip install' line for, in order.
InstallNames(m) ==
    LET lines == SelectSeq(m, LAMBDA piece : piece.k = "Install: pip install")
    IN  [i \in 1..Len(lines) |-> lines[i].v[1]]

\* The kinds of the pieces of a message.
Kinds(m) == {m[i].k : i \in DOMAIN m}

\* Whether a message holds the file name of a path.
HoldsFileName(m, p) == \E i \in DOMAIN m : m[i].v = PathName(p) /\ m[i].k # "extension"

----------------------------------------------------------------------------
(* The inputs of the resolver.                                             *)

\* The segments generated file names are built from.
FreeSegs == {"tiles", "ome", "tif", "tiff", "TIF"}

\* What precedes the first dot of a generated name; "" is a name that starts
\* with a dot.
Stems == {"stack", ""}

\* Names with up to MaxSegs free segments after the stem.
GeneratedNames ==
    {<<s>> \o t : s \in Stems, t \in UNION {[1..k -> FreeSegs] : k \in 0..MaxSegs}}

\* A stem followed by exactly one registered extension, as declared, in upper
\* case, and behind a mixed-case stem.
RegisteredNames ==
    UNION { { <<"stack">> \o e, <<"stack">> \o Upper(e), <<"Stack">> \o e }
            : e \in RegisteredExtensions(BIOIO_PLUGINS) }

\* Names no plugin declares an extension for.
UnknownNames ==
    { <<"stack", "xyz">>, <<"stack", "XYZ">>, <<"stack", "tiles", "ome", "xyz">>,
      <<"czi">>, <<"", "czi">>, <<"stack", "ome", "tif", "xyz">> }

\* The file names of the documented scenarios.
ScenarioNames == { <<"sample", "ome", "tiff">>, <<"stack", "tiles", "ome", "tif">> }

Names == GeneratedNames \cup RegisteredNames \cup UnknownNames \cup ScenarioNames

\* The paths: every name without a directory, and a few below a directory
\* whose own name ends in registered extensions.
Paths ==
    {[dir |-> "", name |-> n] : n \in Names}
    \cup {[dir |-> "scan.tiles.ome.tif", name |-> n]
            : n \in {<<"stack", "czi">>, <<"stack", "xyz">>, <<"stack">>}}

\* The paths of the calls made between two calls on the same path.
OtherPaths ==
    {[dir |-> "", name |-> n]
        : n \in {<<"stack", "czi">>, <<"stack", "ome", "tiff">>, <<"stack", "tiff">>, <<"stack", "xyz">>}}

\* The names a feasibility report of the model may hold.
ReportUniverse == Range(SortedNames)

\* The feasibility reports: no report, and every mapping of at most MaxReport
\* names to a supported flag.
Reports ==
    {NoReport}
    \cup {[given |-> TRUE, entries |-> e]
            : e \in UNION {[S -> [supported : BOOLEAN]]
                            : S \in {T \in SUBSET ReportUniverse : Cardinality(T) <= MaxReport}}}

\* The value of msg while no message has been asked for.
NoMessage == <<>>

----------------------------------------------------------------------------
(* The resolver as a state machine: the module is imported, then             *)
(* suggest_plugins_for_path and get_missing_plugins_message are called.     *)

ResolverInit ==
    /\ FrontIdle
    /\ registry = BIOIO_PLUGINS
    /\ ext_index = _EXTENSION_TO_PLUGIN
    /\ path \in Paths
    /\ op = "init"
    /\ result = <<>>
    /\ prev_result = <<>>
    /\ report = NoReport
    /\ msg = NoMessage
    /\ calls = 0
    /\ mgr_path = [dir |-> "", name |-> <<>>]
    /\ mgr_cache = [has |-> FALSE, report |-> <<>>]
    /\ mgr_op = "new"
    /\ mgr_ret = [exc |-> "", set |-> {}, list |-> <<>>]
    /\ eco_calls = 0
    /\ mgr_arg = ""
    /\ unimportable = {}
    /\ report_path = [dir |-> "", name |-> <<>>]
    /\ image = [is_path |-> FALSE, path |-> [dir |-> "", name |-> <<>>]]
    /\ reader = <<>>
    /\ settings = [preferred_reader |-> "", suggest_reader_plugins |-> FALSE]
    /\ env_installed = {}
    /\ pc = "idle"
    /\ attempts = <<>>
    /\ raised = [exc |-> "", origin |-> "", has_msg_extra |-> FALSE, msg_extra |-> <<>>]
    /\ instance = [built |-> FALSE, has_path |-> FALSE, path |-> [dir |-> "", name |-> <<>>]]
    /\ selected_reader = ""
    /\ compat_calls = 0
    /\ nimg = <<>>
    /\ _layer_data = <<>>
    /\ layer_op = "idle"
    /\ layer_args = <<>>
    /\ layer_ret = <<>>
    /\ layer_log = 0

\* The first call of suggest_plugins_for_path(path).
Suggest ==
    /\ op = "init"
    /\ result' = suggest_plugins_for_path(registry, ext_index, path)
    /\ registry' = RegistryAfter(registry, SuggestedNames(registry, ext_index, path))
    /\ op' = "suggest"
    /\ calls' = calls + 1
    /\ UNCHANGED <<ext_index, path, prev_result, report, msg, front_vars>>
    /\ UNCHANGED <<manager_vars, image_vars, layer_vars, front_vars>>

\* A call of suggest_plugins_for_path on another path, in between.
SuggestOther(q) ==
    /\ op \in {"suggest", "again"}
    /\ calls < MaxCalls
    /\ registry' = RegistryAfter(registry, SuggestedNames(registry, ext_index, q))
    /\ calls' = calls + 1
    /\ UNCHANGED <<ext_index, path, op, result, prev_result, report, msg, front_vars>>
    /\ UNCHANGED <<manager_vars, image_vars, layer_vars, front_vars>>

\* A further call of suggest_plugins_for_path(path), on the same path.
SuggestAgain ==
    /\ op \in {"suggest", "again"}
    /\ calls < MaxCalls
    /\ prev_result' = result
    /\ result' = suggest_plugins_for_path(registry, ext_index, path)
    /\ registry' = RegistryAfter(registry, SuggestedNames(registry, ext_index, path))
    /\ op' = "again"
    /\ calls' = calls + 1
    /\ UNCHANGED <<ext_index, path, report, msg, front_vars>>
    /\ UNCHANGED <<manager_vars, image_vars, layer_vars, front_vars>>

\* A call of get_missing_plugins_message(path, r), which calls
\* suggest_plugins_for_path itself.
Message(r) ==
    /\ op = "init"
    /\ report' = r
    /\ result' = suggest_plugins_for_path(registry, ext_index, path)
    /\ registry' = RegistryAfter(registry, SuggestedNames(registry, ext_index, path))
    /\ msg' = get_missing_plugins_message(registry, ext_index, path, r)
    /\ op' = "message"
    /\ calls' = calls + 1
    /\ UNCHANGED <<ext_index, path, prev_result, front_vars>>
    /\ UNCHANGED <<manager_vars, image_vars, layer_vars, front_vars>>

ResolverNext ==
    \/ Suggest
    \/ \E q \in OtherPaths : SuggestOther(q)
    \/ SuggestAgain
    \/ \E r \in Reports : Message(r)

SpecResolver == ResolverInit /\ [][ResolverNext]_vars

----------------------------------------------------------------------------
(* ReaderPluginManager                                                     *)

\* self.path when the manager was built without a path.
NoPath == [dir |-> "", name |-> <<>>]

\* The cache of feasibility_report before its first read.
EmptyCache == [has |-> FALSE, report |-> <<>>]

\* What a property read gives back: a set, a list, or an exception.
Returned(set, list) == [exc |-> "", set |-> set, list |-> list]

Raised(exc) == [exc |-> exc, set |-> {}, list |-> <<>>]

\* A variant without the cache: every read asks bioio again.
FeasibilityReportUncached(mpath, cache, eco) ==
    IF mpath = NoPath
    THEN [report |-> <<>>, cache |-> [has |-> TRUE, report |-> <<>>], called |-> 0]
    ELSE [report |-> eco, cache |-> [has |-> TRUE, report |-> eco], called |-> 1]

\* feasibility_report, a cached_property: the cached value when there is one;
\* else {} without a path, else the report bioio gives now (eco).  Gives the
\* report, the cache afterwards, and whether bioio was called.
feasibility_report(mpath, cache, eco) ==
    IF cache.has
    THEN [report |-> cache.report, cache |-> cache, called |-> 0]
    ELSE IF mpath = NoPath
    THEN [report |-> <<>>, cache |-> [has |-> TRUE, report |-> <<>>], called |-> 0]
    ELSE [report |-> eco, cache |-> [has |-> TRUE, report |-> eco], called |-> 1]

\* A variant that counts only the plugins that support the file.
InstalledSupportedOnly(entries) ==
    {name \in DOMAIN entries : name # "ArrayLike" /\ entries[name].supported}

\* installed_plugins: the names of the report, without "ArrayLike".
installed_plugins(entries) == {name \in DOMAIN entries : name # "ArrayLike"}

\* suggested_plugins: [] without a path, else what suggest_plugins_for_path
\* returns, a list of plugin info dicts.
suggested_plugins(reg, idx, mpath) ==
    IF mpath = NoPath THEN <<>> ELSE suggest_plugins_for_path(reg, idx, mpath)

\* installable_plugins: the comprehension looks every element of suggested up
\* with BIOIO_PLUGINS.get(plugin_name, {}).  The elements are the dicts that
\* suggest_plugins_for_path returns, a dict is unhashable, and dict.get raises
\* TypeError on an unhashable key: the first element ends the read.
installable_plugins(reg, suggested, installed) ==
    IF suggested = <<>> THEN Returned({}, <<>>) ELSE Raised("TypeError")

\* known_plugins: list(BIOIO_PLUGINS.keys()), the names in declaration order.
known_plugins == PluginOrder

\* get_reader_by_name(name): the Reader class of a plugin, written as the
\* sequence holding its name.
get_reader_by_name(name) == <<name>>

\* try: priority.append(get_reader_by_name(name)) except ImportError: the
\* Reader class is appended unless the import of the plugin's module fails.
TryReader(name, broken) ==
    IF name \in broken THEN <<>> ELSE <<get_reader_by_name(name)>>

\* A variant of get_priority_list that does not leave the preferred reader
\* out of the second loop.
PriorityListWithDuplicate(installed, preferred_reader, broken) ==
    LET first == IF preferred_reader # "" /\ preferred_reader \in installed
                 THEN TryReader(preferred_reader, broken)
                 ELSE <<>>
        rest  == SelectSeq(known_plugins, LAMBDA n : n \in installed /\ n \notin broken)
    IN  first \o [i \in 1..Len(rest) |-> get_reader_by_name(rest[i])]

\* get_priority_list(preferred_reader): the preferred reader when it is given
\* and installed, then the installed plugins in the order of known_plugins
\* without the preferred one; a plugin whose import fails is left out.
get_priority_list(installed, preferred_reader, broken) ==
    LET first == IF preferred_reader # "" /\ preferred_reader \in installed
                 THEN TryReader(preferred_reader, broken)
                 ELSE <<>>
        rest  == SelectSeq(known_plugins,
                     LAMBDA n : n \in installed /\ n # preferred_reader /\ n \notin broken)
    IN  first \o [i \in 1..Len(rest) |-> get_reader_by_name(rest[i])]

\* The preferred_reader arguments: None, an installable core plugin, a plugin
\* that may be installed, a plugin that never is.
PreferredArguments == {"", "bioio-ome-tiff", "bioio-czi", "bioio-nd2"}

\* The sets of plugins that are listed in the report but cannot be imported.
ImportFailures == {{}, {"bioio-czi"}}

\* The paths a manager is built for: no path, a stem followed by each
\* registered extension, names no plugin declares, and the scenarios' names.
ManagerPaths ==
    {NoPath}
    \cup {[dir |-> "", name |-> <<"stack">> \o e] : e \in RegisteredExtensions(BIOIO_PLUGINS)}
    \cup {[dir |-> "", name |-> n] : n \in UnknownNames \cup ScenarioNames}

\* The reports bioio.plugin_feasibility_report may give.
EcoReports == {r.entries : r \in Reports \ {NoReport}}

\* What a read of feasibility_report may get from bioio: any report when it
\* calls bioio, nothing to choose when it does not.
EcoChoices(mpath, cache) ==
    IF cache.has \/ mpath = NoPath THEN {<<>>} ELSE EcoReports

\* format_plugin_installation_message(filename, suggested_plugins,
\* installed_plugins, installable_plugins): the four-branch message policy
\* over plugin names, with the 'no plugins found' answer to an empty
\* suggestion.
format_plugin_installation_message(filename, suggested, installed, installable) ==
    LET lines == JoinLines([i \in 1..Len(installable) |->
                     WithName(BIOIO_PLUGINS[installable[i]], installable[i])])
    IN  IF suggested = <<>>
        THEN << Piece("No bioio plugins found for", filename) >>
        ELSE IF installed # {} /\ installable # <<>>
        THEN << Piece("Installed plugin", Sorted(installed)),
                Piece("failed to read", filename),
                Piece("Try one of these alternatives:", <<>>) >> \o lines
        ELSE IF installed # {}
        THEN << Piece("File", filename),
                Piece("is supported by", Sorted(installed)),
                Piece("However, the plugin failed to read it.", <<>>) >>
        ELSE IF installable # <<>>
        THEN << Piece("To read", filename), Piece("install one of:", <<>>) >> \o lines
        ELSE << Piece("Required plugins for", filename),
                Piece("should already be installed", <<>>) >>

\* get_installation_message: '' without a path; else the arguments of the
\* formatter are read in order (suggested_plugins, installed_plugins,
\* installable_plugins) and an exception of one of them ends the call.
\* Gives the message or the exception, and the report read on the way.
get_installation_message(reg, idx, mpath, cache, eco) ==
    LET suggested == suggested_plugins(reg, idx, mpath)
        fr == feasibility_report(mpath, cache, eco)
        installed == installed_plugins(fr.report)
        installable == installable_plugins(reg, suggested, installed)
    IN  IF mpath = NoPath
        THEN [exc |-> "", text |-> <<>>, cache |-> cache, called |-> 0]
        ELSE IF installable.exc # ""
        THEN [exc |-> installable.exc, text |-> <<>>, cache |-> fr.cache, called |-> fr.called]
        ELSE [exc |-> "",
              text |-> format_plugin_installation_message(PathName(mpath), NamesOf(suggested),
                                                       installed, installable.list),
              cache |-> fr.cache, called |-> fr.called]

\* The resolver's variables while the manager runs: the module as imported.
ResolverIdle ==
    /\ registry = BIOIO_PLUGINS
    /\ ext_index = _EXTENSION_TO_PLUGIN
    /\ path = NoPath
    /\ op = "init"
    /\ result = <<>>
    /\ prev_result = <<>>
    /\ report = NoReport
    /\ msg = NoMessage
    /\ calls = 0

\* The manager's variables while the resolver runs: no manager yet.
ManagerIdle ==
    /\ mgr_path = NoPath
    /\ mgr_cache = EmptyCache
    /\ mgr_op = "new"
    /\ mgr_ret = Returned({}, <<>>)
    /\ eco_calls = 0
    /\ mgr_arg = ""
    /\ unimportable = {}
    /\ report_path = NoPath

\* The image variables while no nImage is being built.
ImageIdle ==
    /\ image = [is_path |-> FALSE, path |-> NoPath]
    /\ reader = <<>>
    /\ settings = [preferred_reader |-> "", suggest_reader_plugins |-> FALSE]
    /\ env_installed = {}
    /\ pc = "idle"
    /\ attempts = <<>>
    /\ raised = [exc |-> "", origin |-> "", has_msg_extra |-> FALSE, msg_extra |-> <<>>]
    /\ instance = [built |-> FALSE, has_path |-> FALSE, path |-> NoPath]
    /\ selected_reader = ""
    /\ compat_calls = 0

\* The layer variables while no layer operation runs.
LayerIdle ==
    /\ nimg = <<>>
    /\ _layer_data = <<>>
    /\ layer_op = "idle"
    /\ layer_args = <<>>
    /\ layer_ret = <<>>
    /\ layer_log = 0

\* ReaderPluginManager(path) or ReaderPluginManager().
ManagerInit ==
    /\ FrontIdle
    /\ ResolverIdle
    /\ ImageIdle
    /\ LayerIdle
    /\ mgr_path \in ManagerPaths
    /\ mgr_cache = EmptyCache
    /\ mgr_op = "new"
    /\ mgr_ret = Returned({}, <<>>)
    /\ eco_calls = 0
    /\ mgr_arg = ""
    /\ unimportable \in ImportFailures
    /\ report_path = NoPath

\* A read of manager.feasibility_report.
ReadFeasibilityReport(eco) ==
    LET fr == feasibility_report(mgr_path, mgr_cache, eco)
    IN  /\ mgr_cache' = fr.cache
        /\ eco_calls' = eco_calls + fr.called
        /\ report_path' = IF fr.called = 1 THEN mgr_path ELSE report_path
        /\ mgr_op' = "feasibility_report"
        /\ mgr_ret' = Returned(DOMAIN fr.report, <<>>)
        /\ mgr_arg' = ""
        /\ UNCHANGED <<mgr_path, unimportable, resolver_vars, image_vars, layer_vars, front_vars>>

\* A read of manager.installed_plugins.
ReadInstalledPlugins(eco) ==
    LET fr == feasibility_report(mgr_path, mgr_cache, eco)
    IN  /\ mgr_cache' = fr.cache
        /\ eco_calls' = eco_calls + fr.called
        /\ report_path' = IF fr.called = 1 THEN mgr_path ELSE report_path
        /\ mgr_op' = "installed_plugins"
        /\ mgr_ret' = Returned(installed_plugins(fr.report), <<>>)
        /\ mgr_arg' = ""
        /\ UNCHANGED <<mgr_path, unimportable, resolver_vars, image_vars, layer_vars, front_vars>>

\* A read of manager.suggested_plugins.
ReadSuggestedPlugins ==
    /\ mgr_op' = "suggested_plugins"
    /\ mgr_ret' = Returned({}, suggested_plugins(registry, ext_index, mgr_path))
    /\ registry' = RegistryAfter(registry, NamesOf(suggested_plugins(registry, ext_index, mgr_path)))
    /\ mgr_arg' = ""
    /\ UNCHANGED <<mgr_path, mgr_cache, eco_calls, unimportable, report_path, ext_index, path, op,
                   result, prev_result, report, msg, calls, image_vars, layer_vars, front_vars>>

\* A read of manager.installable_plugins: suggested_plugins, then
\* installed_plugins (which reads the report), then the comprehension.
ReadInstallablePlugins(eco) ==
    LET suggested == suggested_plugins(registry, ext_index, mgr_path)
        fr == feasibility_report(mgr_path, mgr_cache, eco)
        installed == installed_plugins(fr.report)
    IN  /\ mgr_cache' = fr.cache
        /\ eco_calls' = eco_calls + fr.called
        /\ report_path' = IF fr.called = 1 THEN mgr_path ELSE report_path
        /\ mgr_op' = "installable_plugins"
        /\ mgr_ret' = installable_plugins(registry, suggested, installed)
        /\ registry' = RegistryAfter(registry, NamesOf(suggested))
        /\ mgr_arg' = ""
        /\ UNCHANGED <<mgr_path, unimportable, ext_index, path, op, result, prev_result,
                       report, msg, calls, image_vars, layer_vars, front_vars>>

\* A call of manager.get_installation_message().
CallGetInstallationMessage(eco) ==
    LET m == get_installation_message(registry, ext_index, mgr_path, mgr_cache, eco)
    IN  /\ mgr_cache' = m.cache
        /\ eco_calls' = eco_calls + m.called
        /\ report_path' = IF m.called = 1 THEN mgr_path ELSE report_path
        /\ mgr_op' = "get_installation_message"
        /\ mgr_ret' = [exc |-> m.exc, set |-> {}, list |-> m.text]
        /\ registry' = RegistryAfter(registry,
                            NamesOf(suggested_plugins(registry, ext_index, mgr_path)))
        /\ mgr_arg' = ""
        /\ UNCHANGED <<mgr_path, unimportable, ext_index, path, op, result, prev_result,
                       report, msg, calls, image_vars, layer_vars, front_vars>>

\* A call of manager.get_priority_list(preferred_reader): installed_plugins
\* is read (and with it the report), then the list is built.
CallGetPriorityList(eco, preferred_reader) ==
    LET fr == feasibility_report(mgr_path, mgr_cache, eco)
        installed == installed_plugins(fr.report)
    IN  /\ mgr_cache' = fr.cache
        /\ eco_calls' = eco_calls + fr.called
        /\ report_path' = IF fr.called = 1 THEN mgr_path ELSE report_path
        /\ mgr_op' = "get_priority_list"
        /\ mgr_arg' = preferred_reader
        /\ mgr_ret' = Returned({}, get_priority_list(installed, preferred_reader, unimportable))
        /\ UNCHANGED <<mgr_path, unimportable, resolver_vars, image_vars, layer_vars, front_vars>>

ManagerNext ==
    \/ \E eco \in EcoChoices(mgr_path, mgr_cache) : ReadFeasibilityReport(eco)
    \/ \E eco \in EcoChoices(mgr_path, mgr_cache) : ReadInstalledPlugins(eco)
    \/ ReadSuggestedPlugins
    \/ \E eco \in EcoChoices(mgr_path, mgr_cache) : ReadInstallablePlugins(eco)
    \/ \E eco \in EcoChoices(mgr_path, mgr_cache) : CallGetInstallationMessage(eco)
    \/ \E eco \in EcoChoices(mgr_path, mgr_cache) : \E preferred_reader \in PreferredArguments :
          CallGetPriorityList(eco, preferred_reader)

SpecManager == ManagerInit /\ [][ManagerNext]_vars

----------------------------------------------------------------------------
(* A ReaderPluginManager whose path attribute is assigned anew.            *)

\* The paths a manager is moved between: no path, two files that different
\* plugins read, and a file no plugin is registered for.
AssignedPaths ==
    {NoPath}
    \cup {[dir |-> "", name |-> n]
            : n \in { <<"stack", "czi">>, <<"stack", "tiff">>, <<"stack", "xyz">> }}

\* ReaderPluginManager(path) or ReaderPluginManager(), for one of the paths
\* it is moved between.
ManagerPathInit ==
    /\ ManagerInit
    /\ mgr_path \in AssignedPaths

\* manager.path = q: the attribute is set; the cached_property
\* feasibility_report keeps what it holds.
AssignPath(q) ==
    /\ mgr_path' = q
    /\ mgr_op' = "assign_path"
    /\ mgr_ret' = Returned({}, <<>>)
    /\ mgr_arg' = ""
    /\ UNCHANGED <<mgr_cache, eco_calls, unimportable, report_path,
                   resolver_vars, image_vars, layer_vars, front_vars>>

ManagerPathNext ==
    \/ ManagerNext
    \/ \E q \in AssignedPaths : AssignPath(q)

SpecManagerPath == ManagerPathInit /\ [][ManagerPathNext]_vars

----------------------------------------------------------------------------
(* nImage.__init__: the reader is resolved, BioImage.__init__ is tried with  *)
(* it, and on UnsupportedFileFormatError once more with reader=None.        *)

\* No exception.
NoException == [exc |-> "", origin |-> "", has_msg_extra |-> FALSE, msg_extra |-> <<>>]

\* An exception: its type, who raised it, and msg_extra (None or a message).
Exception(exc, origin, has_msg_extra, msg_extra) ==
    [exc |-> exc, origin |-> origin, has_msg_extra |-> has_msg_extra, msg_extra |-> msg_extra]

\* The instance before self._layer_data and self.path are set.
NotBuilt == [built |-> FALSE, has_path |-> FALSE, path |-> NoPath]

\* The reader argument: None is the empty sequence, a Reader class or a
\* priority list of them is the sequence of their plugin names.
NoReader == <<>>

\* get_installed_plugins(): the names of the installed reader plugins.
get_installed_plugins(env) == env

\* _get_preferred_reader_for_path: None without a preferred reader or when it
\* is not installed, else its Reader class.
_get_preferred_reader_for_path(st, env) ==
    IF st.preferred_reader = "" THEN NoReader
    ELSE IF st.preferred_reader \notin get_installed_plugins(env) THEN NoReader
    ELSE get_reader_by_name(st.preferred_reader)

\* _resolve_reader: the explicit reader, else (for a str or Path only) the
\* preferred reader of the settings, else None.
_resolve_reader(img, explicit_reader, st, env) ==
    IF explicit_reader # NoReader THEN explicit_reader
    ELSE IF ~img.is_path THEN NoReader
    ELSE _get_preferred_reader_for_path(st, env)

\* A variant of the forced attempt without the fallback: an unsupported format
\* leaves the constructor at once.
AfterForcedNoFallback(outcome) ==
    CASE outcome = "ok" -> "opened"
      [] outcome = "unsupported" -> "raised"
      [] OTHER -> "raised"

\* Where the constructor goes after super().__init__(image, reader=resolved):
\* on, when it returned; to the attempt with reader=None, when it raised
\* UnsupportedFileFormatError; out, when it raised anything else.
AfterForced(outcome) ==
    CASE outcome = "ok" -> "opened"
      [] outcome = "unsupported" -> "default"
      [] OTHER -> "raised"

\* A variant that tries reader=None again after an unsupported format.
AfterDefaultRetry(outcome, img) ==
    CASE outcome = "ok" -> "opened"
      [] outcome = "unsupported" -> "default"
      [] OTHER -> "raised"

\* Where the constructor goes after super().__init__(image, reader=None):
\* on, when it returned; to _raise_with_suggestions, when it raised
\* UnsupportedFileFormatError and image is a str or Path; out with the
\* exception of bioio otherwise.
AfterDefault(outcome, img) ==
    CASE outcome = "ok" -> "opened"
      [] outcome = "unsupported" -> IF img.is_path THEN "suggest" ELSE "raised"
      [] OTHER -> "raised"

\* The exception a failed BioImage.__init__ leaves, as bioio raised it.
BioioException(outcome) ==
    IF outcome = "unsupported"
    THEN Exception("UnsupportedFileFormatError", "bioio", FALSE, <<>>)
    ELSE Exception("OtherError", "bioio", FALSE, <<>>)

\* self._layer_data = None; self.path = Path(image) for a str or Path, else None.
InstanceState(img) ==
    [built |-> TRUE, has_path |-> img.is_path, path |-> IF img.is_path THEN img.path ELSE NoPath]

\* The outcomes of one BioImage.__init__ call.
Outcomes == {"ok", "unsupported", "error"}

\* The paths an nImage is built for.
ImagePaths ==
    {[dir |-> "", name |-> n]
        : n \in { <<"stack", "czi">>, <<"stack", "tiff">>, <<"stack", "xyz">>,
                  <<"stack", "tiles", "ome", "tif">>, <<"sample", "ome", "tiff">> }}

\* The image arguments: a path, or array data.
Images ==
    {[is_path |-> TRUE, path |-> q] : q \in ImagePaths}
    \cup {[is_path |-> FALSE, path |-> NoPath]}

\* The reader arguments: None, one Reader class (a TIFF reader, the OME-Zarr
\* reader), a priority list.
ReaderArguments ==
    {NoReader, <<"bioio-tifffile">>, <<"bioio-ome-zarr">>, <<"bioio-ome-tiff", "bioio-tifffile">>}

\* The Reader classes bioio may select by itself (reader=None): the OME-Zarr
\* or a TIFF reader for a path, the array reader for array data.
DefaultReaders(img) ==
    IF img.is_path THEN {"bioio-ome-zarr", "bioio-tifffile"} ELSE {"ArrayLike"}

\* The settings: no preferred reader or one, suggestions on or off.
SettingsValues ==
    [preferred_reader : {"", "bioio-ome-tiff", "bioio-czi"},
     suggest_reader_plugins : BOOLEAN]

\* The environments: at most MaxReport installed plugins.
Environments ==
    {T \in SUBSET (ReportUniverse \ {"ArrayLike"}) : Cardinality(T) <= MaxReport}

\* The reports bioio gives in an environment: one entry per installed plugin,
\* and the ArrayLike entry.
EcoReportsOf(env) ==
    [env \cup {"ArrayLike"} -> [supported : BOOLEAN]]

\* nImage(image, reader) is called.
ImageInit ==
    /\ FrontIdle
    /\ ResolverIdle
    /\ ManagerIdle
    /\ LayerIdle
    /\ image \in Images
    /\ reader \in ReaderArguments
    /\ settings \in SettingsValues
    /\ env_installed \in Environments
    /\ pc = "start"
    /\ attempts = <<>>
    /\ raised = NoException
    /\ instance = NotBuilt
    /\ selected_reader = ""
    /\ compat_calls = 0

\* resolved_reader = _resolve_reader(image, reader)
Resolve ==
    /\ pc = "start"
    /\ pc' = IF _resolve_reader(image, reader, settings, env_installed) # NoReader
             THEN "forced" ELSE "default"
    /\ UNCHANGED <<image, reader, settings, env_installed, attempts, raised, instance,
                   selected_reader, compat_calls, resolver_vars, manager_vars, layer_vars, front_vars>>

\* super().__init__(image=image, reader=resolved_reader), and what follows
\* when it returns or raises something that is not caught.
TryForced(outcome) ==
    /\ pc = "forced"
    /\ attempts' = Append(attempts,
                      [reader |-> _resolve_reader(image, reader, settings, env_installed),
                       outcome |-> outcome])
    /\ pc' = AfterForced(outcome)
    /\ raised' = IF AfterForced(outcome) = "raised" THEN BioioException(outcome) ELSE raised
    /\ instance' = IF AfterForced(outcome) = "opened" THEN InstanceState(image) ELSE instance
    /\ \E sel \in Range(_resolve_reader(image, reader, settings, env_installed)) :
          selected_reader' = IF AfterForced(outcome) = "opened" THEN sel ELSE selected_reader
    /\ UNCHANGED <<image, reader, settings, env_installed, compat_calls,
                   resolver_vars, manager_vars, layer_vars, front_vars>>

\* super().__init__(image=image, reader=None), and what follows when it
\* returns or raises something that goes out as it is.
TryDefault(outcome) ==
    /\ pc = "default"
    /\ attempts' = Append(attempts, [reader |-> NoReader, outcome |-> outcome])
    /\ pc' = AfterDefault(outcome, image)
    /\ raised' = IF AfterDefault(outcome, image) = "raised"
                 THEN BioioException(outcome) ELSE raised
    /\ instance' = IF AfterDefault(outcome, image) = "opened"
                   THEN InstanceState(image) ELSE instance
    /\ \E sel \in DefaultReaders(image) :
          selected_reader' = IF AfterDefault(outcome, image) = "opened"
                             THEN sel ELSE selected_reader
    /\ UNCHANGED <<image, reader, settings, env_installed, compat_calls,
                   resolver_vars, manager_vars, layer_vars, front_vars>>

\* _raise_with_suggestions(image): a ReaderPluginManager is built for the path,
\* its installation message is msg_extra when suggest_reader_plugins is set
\* (None otherwise), and UnsupportedFileFormatError(reader_name='ndevio') is
\* raised; an exception of get_installation_message goes out instead.
_raise_with_suggestions(eco) ==
    LET m == get_installation_message(registry, ext_index, image.path, EmptyCache, eco)
    IN  /\ pc = "suggest"
        /\ mgr_path' = image.path
        /\ IF settings.suggest_reader_plugins
           THEN /\ mgr_cache' = m.cache
                /\ eco_calls' = eco_calls + m.called
                /\ report_path' = IF m.called = 1 THEN image.path ELSE report_path
                /\ mgr_op' = "get_installation_message"
                /\ mgr_ret' = [exc |-> m.exc, set |-> {}, list |-> m.text]
                /\ raised' = IF m.exc # ""
                             THEN Exception(m.exc, "ndevio", FALSE, <<>>)
                             ELSE Exception("UnsupportedFileFormatError", "ndevio", TRUE, m.text)
           ELSE /\ mgr_cache' = EmptyCache
                /\ eco_calls' = eco_calls
                /\ report_path' = report_path
                /\ mgr_op' = "new"
                /\ mgr_ret' = mgr_ret
                /\ raised' = Exception("UnsupportedFileFormatError", "ndevio", FALSE, <<>>)
        /\ pc' = "raised"
        /\ UNCHANGED <<image, reader, settings, env_installed, attempts, instance,
                       selected_reader, compat_calls,
                       mgr_arg, unimportable, resolver_vars, layer_vars, front_vars>>

ImageNext ==
    \/ Resolve
    \/ \E outcome \in Outcomes : TryForced(outcome)
    \/ \E outcome \in Outcomes : TryDefault(outcome)
    \/ \E eco \in EcoReportsOf(env_installed) : _raise_with_suggestions(eco)

SpecImage == ImageInit /\ [][ImageNext]_vars

----------------------------------------------------------------------------
(* Layer types.  A channel name is the sequence of its characters, so that  *)
(* "seg" is <<"s", "e", "g">>.                                              *)

\* None for an optional name or dict, and a value that is not None.
None == [some |-> FALSE, v |-> <<>>]

Some(v) == [some |-> TRUE, v |-> v]

\* None for the optional layer_type argument.
NoLayerType == [some |-> FALSE, v |-> ""]

UpperLetters ==
    << "A", "B", "C", "D", "E", "F", "G", "H", "I", "J", "K", "L", "M",
       "N", "O", "P", "Q", "R", "S", "T", "U", "V", "W", "X", "Y", "Z" >>

LowerLetters ==
    << "a", "b", "c", "d", "e", "f", "g", "h", "i", "j", "k", "l", "m",
       "n", "o", "p", "q", "r", "s", "t", "u", "v", "w", "x", "y", "z" >>

\* str.lower() on one character.
LowerChar(c) ==
    IF \E i \in DOMAIN UpperLetters : UpperLetters[i] = c
    THEN LowerLetters[CHOOSE i \in DOMAIN UpperLetters : UpperLetters[i] = c]
    ELSE c

\* str.lower() on a channel name.
StrLower(str) == [i \in 1..Len(str) |-> LowerChar(str[i])]

\* kw in str: kw is a substring of str.
Contains(str, kw) ==
    /\ Len(kw) <= Len(str)
    /\ \E i \in 1..(Len(str) + 1 - Len(kw)) : SubSeq(str, i, i + Len(kw) - 1) = kw

LABEL_KEYWORDS ==
    { <<"l", "a", "b", "e", "l">>,
      <<"m", "a", "s", "k">>,
      <<"s", "e", "g", "m", "e", "n", "t", "a", "t", "i", "o", "n">>,
      <<"s", "e", "g">>,
      <<"r", "o", "i">> }

\* _layer_utils.infer_layer_type
infer_layer_type(channel_name) ==
    LET name_lower == StrLower(channel_name)
    IN  IF \E kw \in LABEL_KEYWORDS : Contains(name_lower, kw) THEN "labels" ELSE "image"

\* nImage._infer_layer_type
_infer_layer_type(channel_name) ==
    LET name_lower == StrLower(channel_name)
    IN  IF \E kw \in LABEL_KEYWORDS : Contains(name_lower, kw) THEN "labels" ELSE "image"

\* "if channel_types": None and the empty dict are falsy.
DictTruthy(d) == d.some /\ DOMAIN d.v # {}

\* A variant that asks the per-channel mapping before the global override.
ResolvePerChannelFirst(channel_name, global_override, channel_types) ==
    IF DictTruthy(channel_types) /\ channel_name \in DOMAIN channel_types.v
    THEN channel_types.v[channel_name]
    ELSE IF global_override.some
    THEN global_override.v
    ELSE infer_layer_type(channel_name)

\* _layer_utils.resolve_layer_type
resolve_layer_type(channel_name, global_override, channel_types) ==
    IF global_override.some
    THEN global_override.v
    ELSE IF DictTruthy(channel_types) /\ channel_name \in DOMAIN channel_types.v
    THEN channel_types.v[channel_name]
    ELSE infer_layer_type(channel_name)

\* nImage._resolve_layer_type
_resolve_layer_type(channel_name, layer_type_override, channel_types) ==
    IF layer_type_override.some
    THEN layer_type_override.v
    ELSE IF DictTruthy(channel_types) /\ channel_name \in DOMAIN channel_types.v
    THEN channel_types.v[channel_name]
    ELSE _infer_layer_type(channel_name)

\* "channel_name or ''": None and the empty name both give ''.
OrEmpty(channel_name) == IF channel_name.some THEN channel_name.v ELSE <<>>

\* Longest generated channel name.
MaxNameLen == 3

\* The characters generated channel names are spelled with.
NameAlphabet == {"s", "e", "g", "E", "r"}

GeneratedChannelNames == UNION {[1..k -> NameAlphabet] : k \in 0..MaxNameLen}

\* The channel names of the documentation and the tests: 'membrane',
\* 'nuclei_mask', 'DAPI', 'MASK', 'Label', 'SEG_channel', 'roi_data',
\* 'cell_labels', 'SEGMENTATION', and 'android', a word that holds 'roi'.
DocumentedChannelNames ==
    { <<"m", "e", "m", "b", "r", "a", "n", "e">>,
      <<"n", "u", "c", "l", "e", "i", "_", "m", "a", "s", "k">>,
      <<"D", "A", "P", "I">>,
      <<"M", "A", "S", "K">>,
      <<"L", "a", "b", "e", "l">>,
      <<"S", "E", "G", "_", "c", "h", "a", "n", "n", "e", "l">>,
      <<"r", "o", "i", "_", "d", "a", "t", "a">>,
      <<"c", "e", "l", "l", "_", "l", "a", "b", "e", "l", "s">>,
      <<"S", "E", "G", "M", "E", "N", "T", "A", "T", "I", "O", "N">>,
      <<"a", "n", "d", "r", "o", "i", "d">> }

\* The channel_name arguments: a name, or None.
ChannelNameArguments ==
    {None} \cup {Some(n) : n \in GeneratedChannelNames \cup DocumentedChannelNames}

\* The layer_type arguments: None, or a napari layer type.
LayerTypeArguments ==
    {NoLayerType} \cup {[some |-> TRUE, v |-> t] : t \in {"image", "labels", "surface"}}

\* The channel_types arguments: None, the empty dict, and mappings of some
\* names to layer types.
ChannelTypesArguments ==
    { None,
      Some(<<>>),
      Some([n \in {<<"n", "u", "c", "l", "e", "i", "_", "m", "a", "s", "k">>} |-> "points"]),
      Some([n \in {<<"s", "e", "g">>, <<"D", "A", "P", "I">>, <<>>} |->
               IF n = <<>> THEN "labels" ELSE "image"]) }

\* The arguments of a layer-type resolution are chosen.
LayerTypeInit ==
    /\ FrontIdle
    /\ ResolverIdle
    /\ ManagerIdle
    /\ ImageIdle
    /\ nimg = <<>>
    /\ _layer_data = <<>>
    /\ layer_op = "start"
    /\ layer_args \in [channel_name : ChannelNameArguments,
                       layer_type : LayerTypeArguments,
                       channel_types : ChannelTypesArguments]
    /\ layer_ret = ""
    /\ layer_log = 0

\* infer_layer_type(channel_name) on a name.
CallInferLayerType ==
    /\ layer_args.channel_name.some
    /\ layer_op' = "infer_layer_type"
    /\ layer_ret' = infer_layer_type(layer_args.channel_name.v)
    /\ UNCHANGED <<nimg, _layer_data, layer_args, layer_log, resolver_vars, manager_vars, image_vars, front_vars>>

\* resolve_layer_type(channel_name, global_override, channel_types) on a name.
CallResolveLayerType ==
    /\ layer_args.channel_name.some
    /\ layer_op' = "resolve_layer_type"
    /\ layer_ret' = resolve_layer_type(layer_args.channel_name.v, layer_args.layer_type,
                                       layer_args.channel_types)
    /\ UNCHANGED <<nimg, _layer_data, layer_args, layer_log, resolver_vars, manager_vars, image_vars, front_vars>>

\* effective_type = self._resolve_layer_type(channel_name or '', layer_type,
\* channel_types), where channel_name may be None.
ResolveEffectiveType ==
    /\ layer_op' = "_resolve_layer_type"
    /\ layer_ret' = _resolve_layer_type(OrEmpty(layer_args.channel_name),
                                        layer_args.layer_type, layer_args.channel_types)
    /\ UNCHANGED <<nimg, _layer_data, layer_args, layer_log, resolver_vars, manager_vars, image_vars, front_vars>>

LayerTypeNext ==
    \/ CallInferLayerType
    \/ CallResolveLayerType
    \/ ResolveEffectiveType

SpecLayerType == LayerTypeInit /\ [][LayerTypeNext]_vars

----------------------------------------------------------------------------
(* nImage.get_layer_data_tuples: the pixel data is loaded and cached, and   *)
(* one record (data, metadata, layer type) is built per layer.              *)

\* bioio_base.dimensions.DimensionNames
DimensionNames ==
    [MosaicTile |-> "M", Time |-> "T", Channel |-> "C", SpatialZ |-> "Z",
     SpatialY |-> "Y", SpatialX |-> "X", Samples |-> "S"]

\* Largest number of channels of a generated image.
MaxChannels == 2

\* None for the optional in_memory argument.
NoBool == [some |-> FALSE, v |-> FALSE]

\* self._layer_data = None
NoLayerData == [loaded |-> FALSE, dims |-> <<>>, lazy |-> FALSE, scene |-> 0]

\* xarray's squeeze(): the dimensions of size 1 are dropped.
Squeeze(order, sizes) == SelectSeq(order, LAMBDA d : sizes[d] > 1)

\* _determine_in_memory: True without a path; else whether the file is small
\* enough for the memory that is free now (fits).
_determine_in_memory(img, fits) == IF ~img.has_path THEN TRUE ELSE fits

\* _load_layer_data(in_memory): the squeezed xarray of the reader, read in
\* memory or as a dask array; for a mosaic the stitched array, or None when
\* the reader raises NotImplementedError for it.
_load_layer_data(img, in_memory, fits) ==
    LET mem == IF in_memory.some THEN in_memory.v ELSE _determine_in_memory(img, fits)
        stitched == SelectSeq(img.order, LAMBDA d : d # DimensionNames.MosaicTile)
    IN  IF DimensionNames.MosaicTile \in Range(img.order)
        THEN IF img.stitch
             THEN [loaded |-> TRUE, dims |-> Squeeze(stitched, img.sizes), lazy |-> ~mem,
                   scene |-> img.current_scene_index]
             ELSE NoLayerData
        ELSE [loaded |-> TRUE, dims |-> Squeeze(img.order, img.sizes), lazy |-> ~mem,
              scene |-> img.current_scene_index]

\* The property layer_data: loaded on the first access, then the cached value.
layer_data(img, cache, fits) ==
    IF ~cache.loaded THEN _load_layer_data(img, NoBool, fits) ELSE cache

\* A variant that leaves the Samples dimension among the axis labels.
AxisLabelsKeepSamples(data) ==
    SelectSeq(data.dims, LAMBDA d : d # DimensionNames.Channel)

\* layer_axis_labels: the dimensions of the layer data without Channel and
\* Samples.
layer_axis_labels(data) ==
    SelectSeq(data.dims,
              LAMBDA d : d \notin {DimensionNames.Channel, DimensionNames.Samples})

\* What a property read gives: its value, or the exception that leaves it.
Value(v) == [exc |-> "", v |-> v]

Raises(exc) == [exc |-> exc, v |-> <<>>]

\* layer_scale: all 1.0 when self.scale raises AttributeError, any other
\* exception of self.scale leaves the property; else
\* "getattr(bio_scale, dim, None) or 1.0" for every axis label; a scale of
\* None is written 0.
layer_scale(img, data) ==
    LET axis_labels == layer_axis_labels(data)
        value(d) == IF d \in DOMAIN img.scale THEN img.scale[d] ELSE 0
    IN  IF img.scale_raises = "AttributeError"
        THEN Value([i \in 1..Len(axis_labels) |-> 1])
        ELSE IF img.scale_raises # ""
        THEN Raises(img.scale_raises)
        ELSE Value([i \in 1..Len(axis_labels) |->
                       IF value(axis_labels[i]) = 0 THEN 1 ELSE value(axis_labels[i])])

\* layer_units: all None (written "") when self.dimension_properties raises
\* AttributeError, any other exception of it leaves the property; else the
\* unit of every axis label, None without one.
layer_units(img, data) ==
    LET axis_labels == layer_axis_labels(data)
    IN  IF img.props_raises = "AttributeError"
        THEN Value([i \in 1..Len(axis_labels) |-> ""])
        ELSE IF img.props_raises # ""
        THEN Raises(img.props_raises)
        ELSE Value([i \in 1..Len(axis_labels) |->
                       IF axis_labels[i] \in DOMAIN img.units
                       THEN img.units[axis_labels[i]] ELSE ""])

\* dict.update: the entries of overrides replace those of meta.
DictUpdate(meta, overrides) == overrides @@ meta

\* What layer_metadata gives: the dict or the exception, and the number of
\* warnings it logged.
Metadata(v, warnings) == [exc |-> "", v |-> v, warnings |-> warnings]

MetadataError(exc) == [exc |-> exc, v |-> <<>>, warnings |-> 0]

\* A variant of layer_metadata that warns for NotImplementedError as well.
LayerMetadataAlwaysWarns(img) ==
    LET meta == [bioimage |-> "self", raw_image_metadata |-> "metadata"]
    IN  IF img.ome_raises = ""
        THEN Metadata(DictUpdate(meta, [ome_metadata |-> "ome_metadata"]), 0)
        ELSE IF img.ome_raises \in {"NotImplementedError", "ValueError", "TypeError", "KeyError"}
        THEN Metadata(meta, 1)
        ELSE MetadataError(img.ome_raises)

\* layer_metadata: the image itself and its raw metadata, and its OME
\* metadata when reading it raises nothing; NotImplementedError is passed
\* over, ValueError, TypeError and KeyError are logged as one warning, any
\* other exception leaves the property.
layer_metadata(img) ==
    LET meta == [bioimage |-> "self", raw_image_metadata |-> "metadata"]
    IN  IF img.ome_raises = ""
        THEN Metadata(DictUpdate(meta, [ome_metadata |-> "ome_metadata"]), 0)
        ELSE IF img.ome_raises = "NotImplementedError"
        THEN Metadata(meta, 0)
        ELSE IF img.ome_raises \in {"ValueError", "TypeError", "KeyError"}
        THEN Metadata(meta, 1)
        ELSE MetadataError(img.ome_raises)

\* _build_layer_name: the channel name when there is one, the scene index and
\* name unless the image has the one default scene, and the path's stem,
\* joined by DELIM.
_build_layer_name(img, channel_name) ==
    LET path_stem == IF img.has_path THEN img.stem ELSE "unknown path"
        current_scene == img.scenes[img.current_scene_index + 1]
        no_scene == Len(img.scenes) = 1 /\ current_scene = "Image:0"
    IN  (IF channel_name.some /\ channel_name.v # <<>>
         THEN << Piece("channel_name", channel_name.v) >>
         ELSE <<>>)
        \o (IF ~no_scene
            THEN << Piece("current_scene_index", <<img.current_scene_index>>),
                    Piece("current_scene", <<current_scene>>) >>
            ELSE <<>>)
        \o << Piece("path_stem", <<path_stem>>) >>

\* get_colormap_for_channel(channel_idx, total_channels): the colormap of a
\* channel, which depends on its index and on the number of channels.
get_colormap_for_channel(channel_idx, total_channels) ==
    [channel_idx |-> channel_idx, total_channels |-> total_channels]

\* A variant that gives every image layer the blending of the first channel.
BuildTupleNeutralBlending(img, data, layer_type, base_metadata, scale, axis_labels, units, channel_name, channel_idx, total_channels, channel_kwargs, rgb) ==
    LET named == [name |-> _build_layer_name(img, channel_name),
                  metadata |-> base_metadata,
                  scale |-> scale,
                  axis_labels |-> axis_labels]
        with_units == IF units # <<>> THEN DictUpdate(named, [units |-> units]) ELSE named
        shown == IF rgb
                 THEN DictUpdate(with_units, [rgb |-> TRUE])
                 ELSE IF layer_type = "image"
                 THEN DictUpdate(with_units,
                          [colormap |-> get_colormap_for_channel(channel_idx, total_channels),
                           blending |-> "translucent_no_depth"])
                 ELSE with_units
        meta == IF /\ DictTruthy(channel_kwargs)
                   /\ channel_name.some /\ channel_name.v # <<>>
                   /\ channel_name.v \in DOMAIN channel_kwargs.v
                THEN DictUpdate(shown, channel_kwargs.v[channel_name.v])
                ELSE shown
    IN  [data |-> data, meta |-> meta, layer_type |-> layer_type]

\* _build_single_layer_tuple: the metadata of one layer and its record.
_build_single_layer_tuple(img, data, layer_type, base_metadata, scale, axis_labels, units, channel_name, channel_idx, total_channels, channel_kwargs, rgb) ==
    LET named == [name |-> _build_layer_name(img, channel_name),
                  metadata |-> base_metadata,
                  scale |-> scale,
                  axis_labels |-> axis_labels]
        with_units == IF units # <<>> THEN DictUpdate(named, [units |-> units]) ELSE named
        shown == IF rgb
                 THEN DictUpdate(with_units, [rgb |-> TRUE])
                 ELSE IF layer_type = "image"
                 THEN DictUpdate(with_units,
                          [colormap |-> get_colormap_for_channel(channel_idx, total_channels),
                           blending |-> IF channel_idx > 0 /\ total_channels > 1
                                        THEN "additive"
                                        ELSE "translucent_no_depth"])
                 ELSE with_units
        meta == IF /\ DictTruthy(channel_kwargs)
                   /\ channel_name.some /\ channel_name.v # <<>>
                   /\ channel_name.v \in DOMAIN channel_kwargs.v
                THEN DictUpdate(shown, channel_kwargs.v[channel_name.v])
                ELSE shown
    IN  [data |-> data, meta |-> meta, layer_type |-> layer_type]

\* _get_single_channel_name: the one channel coordinate of a squeezed image,
\* None when the data has no channel coordinate or more than one.
_get_single_channel_name(img) ==
    IF img.channel_coord /\ Len(img.channel_names) = 1
    THEN Some(img.channel_names[1])
    ELSE None

\* str(i) for a channel index.
Digits == <<"0", "1", "2", "3", "4", "5", "6", "7", "8", "9">>

\* f'channel_{i}'
DefaultChannelName(i) == <<"c", "h", "a", "n", "n", "e", "l", "_", Digits[i + 1]>>

\* layer_data.data for the whole array, and for channel i of it.
WholeData(data) == [scene |-> data.scene, dims |-> data.dims, slice |-> <<>>, lazy |-> data.lazy]

ChannelData(data, i) ==
    [scene |-> data.scene,
     dims |-> SelectSeq(data.dims, LAMBDA d : d # DimensionNames.Channel),
     slice |-> <<i>>,
     lazy |-> data.lazy]

\* A variant that resolves the layer type once, from the first channel name.
MultichannelOneType(img, data, layer_type, channel_types, channel_kwargs, base_metadata, scale, axis_labels, units) ==
    LET channel_names == img.channel_names
        total_channels == img.sizes[DimensionNames.Channel]
    IN  [k \in 1..total_channels |->
            LET i == k - 1
                channel_name == IF i < Len(channel_names)
                                THEN channel_names[k] ELSE DefaultChannelName(i)
            IN  _build_single_layer_tuple(img, ChannelData(data, i),
                    _resolve_layer_type(channel_names[1], layer_type, channel_types),
                    base_metadata, scale, axis_labels, units,
                    Some(channel_name), i, total_channels, channel_kwargs, FALSE)]

\* _build_multichannel_tuples: one record per index of the channel axis, from
\* the slice, the name and the resolved layer type of that channel.
_build_multichannel_tuples(img, data, layer_type, channel_types, channel_kwargs, base_metadata, scale, axis_labels, units) ==
    LET channel_names == img.channel_names
        total_channels == img.sizes[DimensionNames.Channel]
    IN  [k \in 1..total_channels |->
            LET i == k - 1
                channel_name == IF i < Len(channel_names)
                                THEN channel_names[k] ELSE DefaultChannelName(i)
            IN  _build_single_layer_tuple(img, ChannelData(data, i),
                    _resolve_layer_type(channel_name, layer_type, channel_types),
                    base_metadata, scale, axis_labels, units,
                    Some(channel_name), i, total_channels, channel_kwargs, FALSE)]

\* What a call of get_layer_data_tuples gives: the records or the exception,
\* and self._layer_data afterwards.
LayerTuples(tuples, cache) == [exc |-> "", tuples |-> tuples, cache |-> cache]

LayerError(exc, cache) == [exc |-> exc, tuples |-> <<>>, cache |-> cache]

\* get_layer_data_tuples: the data is loaded when none is cached or in_memory
\* is given; an exception of layer_metadata, layer_scale or layer_units
\* leaves the call; without data (a mosaic that cannot be stitched)
\* layer_scale reads the dims of None and AttributeError leaves the call;
\* else one RGB record for a reader with a Samples dimension, one record when
\* the data has no Channel dimension, one record per channel otherwise.
get_layer_data_tuples(img, cache, in_memory, layer_type, channel_types, channel_kwargs, fits) ==
    LET loaded == IF ~cache.loaded \/ in_memory.some
                  THEN _load_layer_data(img, in_memory, fits)
                  ELSE cache
        data == layer_data(img, loaded, fits)
        types == IF layer_type.some THEN None ELSE channel_types
        base_metadata == layer_metadata(img).v
        scale == layer_scale(img, data).v
        axis_labels == layer_axis_labels(data)
        units == layer_units(img, data).v
        channel_name == _get_single_channel_name(img)
    IN  IF layer_metadata(img).exc # ""
        THEN LayerError(layer_metadata(img).exc, data)
        ELSE IF ~data.loaded
        THEN LayerError("AttributeError", data)
        ELSE IF layer_scale(img, data).exc # ""
        THEN LayerError(layer_scale(img, data).exc, data)
        ELSE IF layer_units(img, data).exc # ""
        THEN LayerError(layer_units(img, data).exc, data)
        ELSE IF DimensionNames.Samples \in Range(img.order)
        THEN LayerTuples(
                 << _build_single_layer_tuple(img, WholeData(data), "image", base_metadata,
                        scale, axis_labels, units, None, 0, 1, channel_kwargs, TRUE) >>,
                 data)
        ELSE IF DimensionNames.Channel \notin Range(data.dims)
        THEN LayerTuples(
                 << _build_single_layer_tuple(img, WholeData(data),
                        _resolve_layer_type(OrEmpty(channel_name), layer_type, types),
                        base_metadata, scale, axis_labels, units,
                        channel_name, 0, 1, channel_kwargs, FALSE) >>,
                 data)
        ELSE LayerTuples(
                 _build_multichannel_tuples(img, data, layer_type, types, channel_kwargs,
                                            base_metadata, scale, axis_labels, units),
                 data)

\* The channel names of generated images: 'membrane', 'nuclei_mask', 'DAPI'
\* and the empty name.
ImageChannelNames ==
    { <<"m", "e", "m", "b", "r", "a", "n", "e">>,
      <<"n", "u", "c", "l", "e", "i", "_", "m", "a", "s", "k">>,
      <<"D", "A", "P", "I">>,
      <<>> }

\* The dimension orders of a reader: TCZYX, with Samples behind it for RGB
\* data and MosaicTile before it for a mosaic.
DimensionOrders ==
    { m \o <<"T", "C", "Z", "Y", "X">> \o smp : m \in {<<>>, <<"M">>}, smp \in {<<>>, <<"S">>} }

\* Where an image comes from: a file with two scenes, or an array.
ImageSources ==
    { [has_path |-> TRUE, stem |-> "stack", scenes |-> <<"Image:0", "Image:1">>],
      [has_path |-> FALSE, stem |-> "", scenes |-> <<"Image:0">>] }

\* The opened images: T of size 2, Z of size 1, up to MaxChannels channels
\* with their names; a single channel may come without a channel coordinate;
\* a mosaic's reader can stitch it or not; the reader answers every read of
\* the scale, the dimension properties and the OME metadata.
LayerImages ==
    { [order |-> o,
       sizes |-> [d \in Range(o) |->
                     CASE d = "C" -> Len(names)
                       [] d = "Z" -> 1
                       [] d = "S" -> 3
                       [] d \in {"Y", "X"} -> 4
                       [] OTHER -> 2],
       channel_names |-> names,
       channel_coord |-> coord,
       stitch |-> stitch,
       has_path |-> src.has_path,
       stem |-> src.stem,
       scenes |-> src.scenes,
       current_scene_index |-> 0,
       scale |-> [d \in {"T", "C", "Z", "Y", "X"} |->
                     CASE d = "T" -> 2 [] d = "Z" -> 3 [] d = "X" -> 4 [] OTHER -> 0],
       units |-> [d \in {"T", "C", "Z", "Y", "X"} |->
                     CASE d = "T" -> "s" [] d \in {"Y", "X"} -> "um" [] OTHER -> ""],
       scale_raises |-> "",
       props_raises |-> "",
       ome_raises |-> ""]
      : o \in DimensionOrders,
        names \in UNION {[1..n -> ImageChannelNames] : n \in 1..MaxChannels},
        coord \in BOOLEAN,
        stitch \in BOOLEAN,
        src \in ImageSources }

\* The images a program can hold: more than one channel always has its
\* coordinate, and stitching matters for a mosaic only.
ValidLayerImages ==
    { img \in LayerImages :
        /\ (Len(img.channel_names) > 1 => img.channel_coord)
        /\ (DimensionNames.MosaicTile \notin Range(img.order) => img.stitch) }

\* The in_memory arguments: None, True, False.
InMemoryArguments == {NoBool, [some |-> TRUE, v |-> TRUE], [some |-> TRUE, v |-> FALSE]}

\* The layer_type arguments of get_layer_data_tuples.
LayerTypeOverrides == {NoLayerType, [some |-> TRUE, v |-> "labels"]}

\* The channel_types arguments of get_layer_data_tuples.
ChannelTypesOfImages ==
    { None,
      Some([n \in { <<"n", "u", "c", "l", "e", "i", "_", "m", "a", "s", "k">>,
                    <<"D", "A", "P", "I">> } |->
               IF n = <<"D", "A", "P", "I">> THEN "labels" ELSE "points"]) }

\* The channel_kwargs arguments of get_layer_data_tuples.
ChannelKwargsArguments ==
    { None,
      Some([n \in { <<"m", "e", "m", "b", "r", "a", "n", "e">> } |-> [colormap |-> "blue"]]),
      Some([n \in { <<"n", "u", "c", "l", "e", "i", "_", "m", "a", "s", "k">> } |->
               [blending |-> "opaque"]]) }

\* An nImage was opened, and the arguments of the calls are chosen.
LayersInit ==
    /\ FrontIdle
    /\ ResolverIdle
    /\ ManagerIdle
    /\ ImageIdle
    /\ nimg \in ValidLayerImages
    /\ _layer_data = NoLayerData
    /\ layer_op = "opened"
    /\ layer_args \in [in_memory : InMemoryArguments,
                       layer_type : LayerTypeOverrides,
                       channel_types : ChannelTypesOfImages,
                       channel_kwargs : ChannelKwargsArguments]
    /\ layer_ret = [exc |-> "", tuples |-> <<>>]
    /\ layer_log = 0

\* A read of the property layer_data.
ReadLayerData(fits) ==
    /\ _layer_data' = layer_data(nimg, _layer_data, fits)
    /\ layer_op' = "layer_data"
    /\ layer_ret' = [exc |-> "", tuples |-> <<>>]
    /\ layer_log' = 0
    /\ UNCHANGED <<nimg, layer_args, resolver_vars, manager_vars, image_vars, front_vars>>

\* A call of get_layer_data_tuples(in_memory, layer_type, channel_types,
\* channel_kwargs).
CallGetLayerDataTuples(fits) ==
    LET r == get_layer_data_tuples(nimg, _layer_data, layer_args.in_memory,
                 layer_args.layer_type, layer_args.channel_types,
                 layer_args.channel_kwargs, fits)
    IN  /\ _layer_data' = r.cache
        /\ layer_op' = "get_layer_data_tuples"
        /\ layer_ret' = [exc |-> r.exc, tuples |-> r.tuples]
        /\ layer_log' = layer_metadata(nimg).warnings
        /\ UNCHANGED <<nimg, layer_args, resolver_vars, manager_vars, image_vars, front_vars>>

LayersNext ==
    \/ \E fits \in BOOLEAN : ReadLayerData(fits)
    \/ \E fits \in BOOLEAN : CallGetLayerDataTuples(fits)

SpecLayers == LayersInit /\ [][LayersNext]_vars

----------------------------------------------------------------------------
(* The layer properties of an nImage whose reader may fail to give the     *)
(* scale, the dimension properties or the OME metadata.                    *)

\* What reading self.scale or self.dimension_properties may raise ("" when
\* it raises nothing).
MetadataReadErrors == {"", "AttributeError", "KeyError", "TypeError"}

\* What reading self.ome_metadata may raise.
OmeReadErrors ==
    {"", "NotImplementedError", "ValueError", "TypeError", "KeyError", "AttributeError"}

\* The images whose properties are read: one channel name, every dimension
\* order, and every outcome of the three metadata reads.
PropsImages ==
    { [img EXCEPT !.scale_raises = sr, !.props_raises = pr, !.ome_raises = om]
        : img \in { i \in ValidLayerImages :
                       i.channel_names \in { <<<<"D", "A", "P", "I">>>>,
                                             <<<<"D", "A", "P", "I">>, <<>>>> } },
          sr \in MetadataReadErrors,
          pr \in MetadataReadErrors,
          om \in OmeReadErrors }

\* An nImage was opened; none of its properties was read.
PropsInit ==
    /\ FrontIdle
    /\ ResolverIdle
    /\ ManagerIdle
    /\ ImageIdle
    /\ nimg \in PropsImages
    /\ _layer_data = NoLayerData
    /\ layer_op = "opened"
    /\ layer_args = <<>>
    /\ layer_ret = Value(<<>>)
    /\ layer_log = 0

\* A read of the property layer_axis_labels: layer_data is loaded on the way,
\* and without data the read of its dims raises AttributeError.
ReadLayerAxisLabels(fits) ==
    LET data == layer_data(nimg, _layer_data, fits)
    IN  /\ _layer_data' = data
        /\ layer_op' = "layer_axis_labels"
        /\ layer_ret' = IF ~data.loaded THEN Raises("AttributeError")
                        ELSE Value(layer_axis_labels(data))
        /\ layer_log' = 0
        /\ UNCHANGED <<nimg, layer_args, resolver_vars, manager_vars, image_vars, front_vars>>

\* A read of the property layer_scale, which reads layer_axis_labels first.
ReadLayerScale(fits) ==
    LET data == layer_data(nimg, _layer_data, fits)
    IN  /\ _layer_data' = data
        /\ layer_op' = "layer_scale"
        /\ layer_ret' = IF ~data.loaded THEN Raises("AttributeError")
                        ELSE layer_scale(nimg, data)
        /\ layer_log' = 0
        /\ UNCHANGED <<nimg, layer_args, resolver_vars, manager_vars, image_vars, front_vars>>

\* A read of the property layer_units, which reads layer_axis_labels first.
ReadLayerUnits(fits) ==
    LET data == layer_data(nimg, _layer_data, fits)
    IN  /\ _layer_data' = data
        /\ layer_op' = "layer_units"
        /\ layer_ret' = IF ~data.loaded THEN Raises("AttributeError")
                        ELSE layer_units(nimg, data)
        /\ layer_log' = 0
        /\ UNCHANGED <<nimg, layer_args, resolver_vars, manager_vars, image_vars, front_vars>>

\* A read of the property layer_metadata.
ReadLayerMetadata ==
    LET r == layer_metadata(nimg)
    IN  /\ layer_op' = "layer_metadata"
        /\ layer_ret' = [exc |-> r.exc, v |-> r.v]
        /\ layer_log' = r.warnings
        /\ UNCHANGED <<nimg, _layer_data, layer_args, resolver_vars, manager_vars, image_vars, front_vars>>

PropsNext ==
    \/ \E fits \in BOOLEAN : ReadLayerAxisLabels(fits)
    \/ \E fits \in BOOLEAN : ReadLayerScale(fits)
    \/ \E fits \in BOOLEAN : ReadLayerUnits(fits)
    \/ ReadLayerMetadata

SpecLayerProps == PropsInit /\ [][PropsNext]_vars

----------------------------------------------------------------------------
(* The napari reader: napari_get_reader hands out the reader function, and *)
(* napari_reader_function opens the image and builds its layer records.    *)

\* Largest number of scenes of a generated image.
MaxScenes == 3

\* The values of the setting ndevio_reader.scene_handling.
SceneHandlingValues == {"Open Scene Widget", "View All Scenes", "View First Scene Only"}

\* None as the return value of napari_get_reader.
NoReaderFunction ==
    [callable |-> FALSE, in_memory |-> NoBool,
     open_first_scene_only |-> FALSE, open_all_scenes |-> FALSE]

\* partial(napari_reader_function, in_memory=..., open_first_scene_only=...,
\* open_all_scenes=...)
ReaderFunction(in_memory, open_first_scene_only, open_all_scenes) ==
    [callable |-> TRUE, in_memory |-> in_memory,
     open_first_scene_only |-> open_first_scene_only, open_all_scenes |-> open_all_scenes]

\* "(arg if arg is not None else settings...scene_handling == value) or False"
ArgumentOrSetting(arg, scene_handling, value) ==
    IF arg.some THEN arg.v ELSE scene_handling = value

\* A variant that hands out a reader function for every single path.
GetReaderForEveryPath(reg, idx, is_list, p, in_memory, first_arg, all_arg, scene_handling) ==
    LET open_first_scene_only ==
            ArgumentOrSetting(first_arg, scene_handling, "View First Scene Only")
        open_all_scenes == ArgumentOrSetting(all_arg, scene_handling, "View All Scenes")
    IN  IF is_list THEN NoReaderFunction
        ELSE ReaderFunction(in_memory, open_first_scene_only, open_all_scenes)

\* napari_get_reader: None for a list of paths and for a path no plugin is
\* suggested for, else the reader function with the scene mode bound.
napari_get_reader(reg, idx, is_list, p, in_memory, first_arg, all_arg, scene_handling) ==
    LET open_first_scene_only ==
            ArgumentOrSetting(first_arg, scene_handling, "View First Scene Only")
        open_all_scenes == ArgumentOrSetting(all_arg, scene_handling, "View All Scenes")
        suggested == suggest_plugins_for_path(reg, idx, p)
    IN  IF is_list THEN NoReaderFunction
        ELSE IF suggested = <<>> THEN NoReaderFunction
        ELSE ReaderFunction(in_memory, open_first_scene_only, open_all_scenes)

\* A variant in which open_all_scenes wins over open_first_scene_only.
SceneModeAllFirst(img, open_first_scene_only, open_all_scenes) ==
    IF Len(img.scenes) = 1 THEN "first_scene"
    ELSE IF open_all_scenes THEN "all_scenes"
    ELSE IF open_first_scene_only THEN "first_scene"
    ELSE "scene_widget"

\* Where napari_reader_function goes once the image is open: the current
\* scene alone, every scene, or the scene widget.
SceneMode(img, open_first_scene_only, open_all_scenes) ==
    IF Len(img.scenes) = 1 \/ open_first_scene_only THEN "first_scene"
    ELSE IF open_all_scenes THEN "all_scenes"
    ELSE "scene_widget"

\* BioImage.set_scene(scene): the scene of that name becomes the current one.
set_scene(img, scene) ==
    [img EXCEPT !.current_scene_index =
        (CHOOSE k \in 1..Len(img.scenes) : img.scenes[k] = scene) - 1]

\* nImageSceneWidget(viewer, path, img, in_memory): the widget that is docked;
\* building it builds no layer record.
nImageSceneWidget == [widget |-> "nImageSceneWidget", records |-> <<>>]

\* The names of the scenes of a file.
SceneNames == <<"Image:0", "Image:1", "Image:2", "Image:3", "Image:4">>

\* The images the reader function opens: files of 1 to MaxScenes scenes with
\* two channels, plain or RGB, whose reader delivers the pixel data.
ReaderImages ==
    { [img EXCEPT !.scenes = SubSeq(SceneNames, 1, n)]
        : img \in { i \in ValidLayerImages :
                       /\ i.has_path
                       /\ DimensionNames.MosaicTile \notin Range(i.order)
                       /\ i.channel_names = << <<"m", "e", "m", "b", "r", "a", "n", "e">>,
                                               <<"D", "A", "P", "I">> >> },
          n \in 1..MaxScenes }

\* The paths napari hands to the reader: recognized extensions, an
\* extension no plugin declares, and a name without extension.
ReaderPaths ==
    {[dir |-> "", name |-> n]
        : n \in { <<"stack", "czi">>, <<"stack", "nd2">>, <<"stack", "ome", "tiff">>,
                  <<"stack", "xyz">>, <<"stack">> }}

\* napari_get_reader is about to be called on a path, or on a list of paths.
ReaderInit ==
    /\ ResolverIdle
    /\ ManagerIdle
    /\ ImageIdle
    /\ LayerIdle
    /\ WidgetIdle
    /\ rd_input \in [is_list : BOOLEAN,
                     path : ReaderPaths,
                     in_memory : {NoBool, [some |-> TRUE, v |-> FALSE]},
                     open_first_scene_only : InMemoryArguments,
                     open_all_scenes : InMemoryArguments,
                     scene_handling : SceneHandlingValues,
                     readable : BOOLEAN,
                     img : ReaderImages]
    /\ rd_pc = "start"
    /\ rd_reader = NoReaderFunction
    /\ rd_visited = <<>>
    /\ rd_calls = <<>>
    /\ rd_layers = <<>>
    /\ rd_docked = 0
    /\ rd_opened = 0
    /\ rd_exc = ""

\* reader = napari_get_reader(path, in_memory, open_first_scene_only,
\* open_all_scenes)
GetReader ==
    /\ rd_pc = "start"
    /\ rd_reader' = napari_get_reader(registry, ext_index, rd_input.is_list, rd_input.path,
                        rd_input.in_memory, rd_input.open_first_scene_only,
                        rd_input.open_all_scenes, rd_input.scene_handling)
    /\ rd_pc' = "got_reader"
    /\ UNCHANGED <<rd_input, rd_visited, rd_calls, rd_layers, rd_docked, rd_opened, rd_exc,
                   resolver_vars, manager_vars, image_vars, layer_vars,
                   widget_vars>>

\* reader(path), up to the choice of the scene mode: img = nImage(path) opens
\* the file or raises UnsupportedFileFormatError (no installed plugin reads
\* it), which leaves the reader function.
OpenImage ==
    /\ rd_pc = "got_reader"
    /\ rd_reader.callable
    /\ IF rd_input.readable
       THEN /\ nimg' = rd_input.img
            /\ _layer_data' = NoLayerData
            /\ rd_opened' = rd_opened + 1
            /\ rd_exc' = ""
            /\ rd_pc' = SceneMode(rd_input.img, rd_reader.open_first_scene_only,
                                  rd_reader.open_all_scenes)
       ELSE /\ rd_exc' = "UnsupportedFileFormatError"
            /\ rd_pc' = "raised"
            /\ UNCHANGED <<nimg, _layer_data, rd_opened>>
    /\ UNCHANGED <<rd_input, rd_reader, rd_visited, rd_calls, rd_layers, rd_docked,
                   layer_op, layer_args, layer_ret, layer_log,
                   resolver_vars, manager_vars, image_vars, widget_vars>>

\* return img.get_layer_data_tuples(in_memory=in_memory)
ReturnCurrentScene(fits) ==
    LET r == get_layer_data_tuples(nimg, _layer_data, rd_reader.in_memory,
                                   NoLayerType, None, None, fits)
    IN  /\ rd_pc = "first_scene"
        /\ _layer_data' = r.cache
        /\ rd_calls' = Append(rd_calls, nimg.current_scene_index)
        /\ rd_layers' = r.tuples
        /\ rd_exc' = r.exc
        /\ rd_pc' = IF r.exc = "" THEN "returned" ELSE "raised"
        /\ UNCHANGED <<rd_input, rd_reader, rd_visited, rd_docked, rd_opened,
                       nimg, layer_op, layer_args, layer_ret, layer_log,
                       resolver_vars, manager_vars, image_vars, widget_vars>>

\* One turn of "for scene in img.scenes": img.set_scene(scene), then
\* layer_list.extend(img.get_layer_data_tuples(in_memory=in_memory)).
VisitScene(fits) ==
    LET scene == nimg.scenes[Len(rd_visited) + 1]
        img == set_scene(nimg, scene)
        r == get_layer_data_tuples(img, _layer_data, rd_reader.in_memory,
                                   NoLayerType, None, None, fits)
    IN  /\ rd_pc = "all_scenes"
        /\ Len(rd_visited) < Len(nimg.scenes)
        /\ nimg' = img
        /\ rd_visited' = Append(rd_visited, scene)
        /\ _layer_data' = r.cache
        /\ rd_calls' = Append(rd_calls, img.current_scene_index)
        /\ rd_layers' = rd_layers \o r.tuples
        /\ rd_exc' = r.exc
        /\ rd_pc' = IF r.exc = "" THEN "all_scenes" ELSE "raised"
        /\ UNCHANGED <<rd_input, rd_reader, rd_docked, rd_opened,
                       layer_op, layer_args, layer_ret, layer_log,
                       resolver_vars, manager_vars, image_vars, widget_vars>>

\* return layer_list, once the loop has seen every scene.
ReturnAllScenes ==
    /\ rd_pc = "all_scenes"
    /\ Len(rd_visited) = Len(nimg.scenes)
    /\ rd_pc' = "returned"
    /\ UNCHANGED <<rd_input, rd_reader, rd_visited, rd_calls, rd_layers, rd_docked, rd_opened,
                   rd_exc, resolver_vars, manager_vars, image_vars, layer_vars,
                   widget_vars>>

\* _open_scene_container(path, img, in_memory) docks the scene widget, and
\* [(None,)] is returned.
_open_scene_container ==
    /\ rd_pc = "scene_widget"
    /\ rd_docked' = rd_docked + 1
    /\ rd_layers' = nImageSceneWidget.records
    /\ rd_pc' = "returned_none_tuple"
    /\ UNCHANGED <<rd_input, rd_reader, rd_visited, rd_calls, rd_opened, rd_exc,
                   resolver_vars, manager_vars, image_vars, layer_vars,
                   widget_vars>>

ReaderNext ==
    \/ GetReader
    \/ OpenImage
    \/ \E fits \in BOOLEAN : ReturnCurrentScene(fits)
    \/ \E fits \in BOOLEAN : VisitScene(fits)
    \/ ReturnAllScenes
    \/ _open_scene_container

SpecReader == ReaderInit /\ [][ReaderNext]_vars

----------------------------------------------------------------------------
(* The plugin installer widget.                                            *)

\* Most on_process_finished handlers one widget connects.
MaxInstalls == 2

\* self.plugins, the choices of the ComboBox: keys of BIOIO_PLUGINS.
WidgetChoices == {"bioio-czi", "bioio-lif"}

\* The package names a completion event may carry: the choices and a package
\* that is no bioio plugin.
EventPackages == WidgetChoices \cup {"napari-svg"}

\* The exit codes a completion event may carry.
ExitCodes == {0, 1, 2}

\* The completion events of the installer queue: a dict that may lack its
\* "exit_code" and its "pkgs" entry.
ProcessFinishedEvents ==
    [emitting : {TRUE}, has_exit_code : {TRUE}, exit_code : ExitCodes,
     has_pkgs : {TRUE}, pkgs : SUBSET EventPackages]
    \cup [emitting : {TRUE}, has_exit_code : {FALSE}, exit_code : {0},
          has_pkgs : {TRUE}, pkgs : SUBSET EventPackages]
    \cup [emitting : {TRUE}, has_exit_code : {TRUE}, exit_code : ExitCodes,
          has_pkgs : {FALSE}, pkgs : {{}}]

\* No emission is under way.
NoEvent == [emitting |-> FALSE]

\* The values of the status label.
StatusEmpty == [kind |-> "empty", plugin |-> "", exit_code |-> 0]

StatusInstalling == [kind |-> "Installing...", plugin |-> "", exit_code |-> 0]

StatusNoPlugin == [kind |-> "No plugin selected", plugin |-> "", exit_code |-> 0]

StatusSuccess(plugin_name) ==
    [kind |-> "Successfully installed", plugin |-> plugin_name, exit_code |-> 0]

StatusFailed(plugin_name, exit_code) ==
    [kind |-> "Installation failed", plugin |-> plugin_name, exit_code |-> exit_code]

\* processFinished.connect(handler) and processFinished.disconnect(handler)
\* on the queue's signal; disconnecting a handler that is not connected
\* raises.
Connect(handlers, plugin_name) ==
    Append(handlers, [plugin_name |-> plugin_name, connected |-> TRUE])

Disconnect(handlers, h) ==
    [handlers |-> [handlers EXCEPT ![h].connected = FALSE],
     exc |-> IF handlers[h].connected THEN "" ELSE "TypeError"]

\* install_plugin(plugin_name): the queue takes the install job.
install_plugin(jobs, plugin_name) ==
    Append(jobs, [op |-> "install_plugin", plugin_name |-> plugin_name])

\* The closure on_process_finished of handler h, called with an event.
OnProcessFinishedKeepsFailed(handlers, h, event, status) ==
    LET plugin_name == handlers[h].plugin_name
        exit_code == IF event.has_exit_code THEN event.exit_code ELSE 1
        pkgs == IF event.has_pkgs THEN event.pkgs ELSE {}
        off == Disconnect(handlers, h)
    IN  IF plugin_name \notin pkgs
        THEN [status |-> status, handlers |-> handlers, exc |-> ""]
        ELSE IF exit_code = 0
        THEN [status |-> StatusSuccess(plugin_name), handlers |-> off.handlers,
              exc |-> off.exc]
        ELSE [status |-> StatusFailed(plugin_name, exit_code), handlers |-> handlers,
              exc |-> ""]

on_process_finished(handlers, h, event, status) ==
    LET plugin_name == handlers[h].plugin_name
        exit_code == IF event.has_exit_code THEN event.exit_code ELSE 1
        pkgs == IF event.has_pkgs THEN event.pkgs ELSE {}
        off == Disconnect(handlers, h)
    IN  IF plugin_name \notin pkgs
        THEN [status |-> status, handlers |-> handlers, exc |-> ""]
        ELSE IF exit_code = 0
        THEN [status |-> StatusSuccess(plugin_name), handlers |-> off.handlers,
              exc |-> off.exc]
        ELSE [status |-> StatusFailed(plugin_name, exit_code), handlers |-> off.handlers,
              exc |-> off.exc]

\* The indices of the connected handlers, in connection order.
RECURSIVE ConnectedHandlers(_, _)
ConnectedHandlers(handlers, h) ==
    IF h > Len(handlers)
    THEN <<>>
    ELSE (IF handlers[h].connected THEN <<h>> ELSE <<>>)
         \o ConnectedHandlers(handlers, h + 1)

\* PluginInstallerWidget(path, suggested_plugins): the ComboBox holds the
\* first suggested plugin, or None; the status label is empty; only the
\* button's clicked signal is connected.
WidgetInit ==
    /\ ResolverIdle
    /\ ManagerIdle
    /\ ImageIdle
    /\ LayerIdle
    /\ ReaderIdle
    /\ wg_pc = "open"
    /\ wg_select \in {""} \cup WidgetChoices
    /\ wg_status = StatusEmpty
    /\ wg_handlers = <<>>
    /\ wg_calls = <<>>
    /\ wg_event = NoEvent
    /\ wg_pending = <<>>
    /\ wg_exc = ""

\* The user picks an entry of the ComboBox, or clears it.
SelectPlugin(p) ==
    /\ wg_pc = "open"
    /\ ~wg_event.emitting
    /\ wg_select' = p
    /\ UNCHANGED <<wg_pc, wg_status, wg_handlers, wg_calls, wg_event, wg_pending, wg_exc,
                   resolver_vars, manager_vars, image_vars, layer_vars, reader_vars>>

\* The click on "Install Plugin".
_on_install_clicked ==
    /\ wg_pc = "open"
    /\ ~wg_event.emitting
    /\ Len(wg_handlers) < MaxInstalls \/ wg_select = ""
    /\ IF wg_select = ""
       THEN /\ wg_status' = StatusNoPlugin
            /\ UNCHANGED <<wg_handlers, wg_calls>>
       ELSE /\ wg_status' = StatusInstalling
            /\ wg_handlers' = Connect(wg_handlers, wg_select)
            /\ wg_calls' = install_plugin(
                              Append(wg_calls, [op |-> "connect",
                                                plugin_name |-> wg_select]),
                              wg_select)
    /\ wg_exc' = ""
    /\ UNCHANGED <<wg_pc, wg_select, wg_event, wg_pending,
                   resolver_vars, manager_vars, image_vars, layer_vars, reader_vars>>

\* The queue emits processFinished(event): the handlers connected now are
\* called one after the other, in connection order.
ProcessFinished(event) ==
    /\ wg_pc \in {"open", "closed"}
    /\ ~wg_event.emitting
    /\ wg_pending' = ConnectedHandlers(wg_handlers, 1)
    /\ wg_event' = IF wg_pending' = <<>> THEN NoEvent ELSE event
    /\ UNCHANGED <<wg_pc, wg_select, wg_status, wg_handlers, wg_calls, wg_exc,
                   resolver_vars, manager_vars, image_vars, layer_vars, reader_vars>>

\* The emission calls the next handler.
CallHandler ==
    /\ wg_event.emitting
    /\ LET r == on_process_finished(wg_handlers, Head(wg_pending), wg_event, wg_status)
       IN  /\ wg_status' = r.status
           /\ wg_handlers' = r.handlers
           /\ wg_exc' = r.exc
    /\ wg_pending' = Tail(wg_pending)
    /\ wg_event' = IF Len(wg_pending) = 1 THEN NoEvent ELSE wg_event
    /\ UNCHANGED <<wg_pc, wg_select, wg_calls,
                   resolver_vars, manager_vars, image_vars, layer_vars, reader_vars>>

\* close(): queue.processFinished.disconnect() drops every connection of the
\* signal, then the widget closes.
close ==
    /\ wg_pc = "open"
    /\ ~wg_event.emitting
    /\ wg_pc' = "closed"
    /\ wg_handlers' = [h \in DOMAIN wg_handlers |->
                          [wg_handlers[h] EXCEPT !.connected = FALSE]]
    /\ wg_exc' = ""
    /\ UNCHANGED <<wg_select, wg_status, wg_calls, wg_event, wg_pending,
                   resolver_vars, manager_vars, image_vars, layer_vars, reader_vars>>

WidgetNext ==
    \/ \E p \in {""} \cup WidgetChoices : SelectPlugin(p)
    \/ _on_install_clicked
    \/ \E event \in ProcessFinishedEvents : ProcessFinished(event)
    \/ CallHandler
    \/ close

SpecWidget == WidgetInit /\ [][WidgetNext]_vars

----------------------------------------------------------------------------
(* Claims about the resolver.                                              *)

\* suggest_plugins_for_path has just returned for the current path.
Suggested == op \in {"suggest", "again"}

\* The lower-cased name of the current path ends in ".tiles.ome.tif".
EndsInTiledTiff == EndsWith(Lower(PathName(path)), <<"tiles", "ome", "tif">>)

\* C1: for every file name whose lower-cased form ends in ".tiles.ome.tif",
\* suggest_plugins_for_path returns exactly one plugin, bioio-ome-tiled-tiff,
\* and no plugin registered only for a shorter suffix of it.
C1_CompoundPrecedence ==
    (Suggested /\ EndsInTiledTiff) => NamesOf(result) = <<"bioio-ome-tiled-tiff">>

\* The current name is a non-empty stem without a dot followed by exactly the
\* extension ext, in any letter case.
IsStemPlus(ext) ==
    /\ Len(PathName(path)) = Len(ext) + 1
    /\ PathName(path)[1] # ""
    /\ Lower(Tail(PathName(path))) = ext

\* C2: for every plugin P of the registry and every extension E that P
\* declares, the resolver applied to a non-empty stem followed by exactly E,
\* in any letter case, returns a list that contains P.
C2_RegistryCompleteness ==
    Suggested =>
        \A P \in PluginNames : \A i \in DOMAIN BIOIO_PLUGINS[P].extensions :
            IsStemPlus(BIOIO_PLUGINS[P].extensions[i]) => P \in Range(NamesOf(result))

\* The current path is the scenario's 'sample.ome.tiff'.
IsSampleOmeTiff == PathName(path) = <<"sample", "ome", "tiff">>

\* C3, as stated: for 'sample.ome.tiff' the resolver goes through the
\* simple-suffix branch and returns both bioio-ome-tiff and bioio-tifffile.
C3_SimpleBranchBoth ==
    (Suggested /\ IsSampleOmeTiff) =>
        /\ SuggestBranch(registry, ext_index, path) = "simple"
        /\ {"bioio-ome-tiff", "bioio-tifffile"} \subseteq Range(NamesOf(result))

\* C3, amended: for 'sample.ome.tiff' the resolver goes through the
\* compound-extension branch ('.ome.tiff' has two dots) and returns only
\* bioio-ome-tiff.
C3_CompoundBranchOmeTiffOnly ==
    (Suggested /\ IsSampleOmeTiff) =>
        /\ SuggestBranch(registry, ext_index, path) = "compound"
        /\ NamesOf(result) = <<"bioio-ome-tiff">>

C3_Witness ==
    /\ op = "suggest"
    /\ IsSampleOmeTiff
    /\ Len(result) = 1
    /\ result[1].name = "bioio-ome-tiff"

\* No plugin declares an extension of the current file name: no compound
\* extension the lower-cased name ends with, and not its lower-cased suffix.
NoExtensionDeclared ==
    \A P \in PluginNames : \A i \in DOMAIN BIOIO_PLUGINS[P].extensions :
        LET ext == BIOIO_PLUGINS[P].extensions[i]
        IN  /\ ~(Len(ext) >= 2 /\ EndsWith(Lower(PathName(path)), ext))
            /\ Lower(PathSuffix(PathName(path))) # ext

\* C4: for a file name whose extension no registered plugin declares,
\* suggest_plugins_for_path returns the empty list, and
\* get_missing_plugins_message returns a message that holds 'No bioio plugins
\* found' and the file name, whatever feasibility report is passed.
C4_UnknownExtension ==
    NoExtensionDeclared =>
        /\ Suggested => result = <<>>
        /\ op = "message" =>
              /\ "No bioio plugins found for" \in Kinds(msg)
              /\ HoldsFileName(msg, path)

C4_Witness ==
    /\ op = "message"
    /\ NoExtensionDeclared
    /\ PathName(path) = <<"stack", "tiles", "ome", "xyz">>
    /\ "bioio-ome-tiff" \in DOMAIN report.entries
    /\ report.entries["bioio-ome-tiff"].supported
    /\ "No bioio plugins found for" \in Kinds(msg)

----------------------------------------------------------------------------
(* Claims about the message policy of get_missing_plugins_message.         *)

\* get_missing_plugins_message has just returned for the current path.
MessageReturned == op = "message"

\* The registry flags the plugin as core.
FlaggedCore(n) == "core" \in DOMAIN BIOIO_PLUGINS[n] /\ BIOIO_PLUGINS[n].core

\* The installed plugins of the report that was passed: its names without
\* the sentinel.
InReport == DOMAIN report.entries \ {"ArrayLike"}

\* The installed plugins the report marks as able to read the file.
CapableInReport == {n \in InReport : report.entries[n].supported}

\* The suggested plugins that are neither core nor in the report, in the
\* order of the suggestion.
InstallableOfResult ==
    SelectSeq(NamesOf(result), LAMBDA n : ~FlaggedCore(n) /\ n \notin DOMAIN report.entries)

\* C12: if at least one installed plugin of the feasibility report has
\* supported = true for the file, the message frames the failure as a file
\* content or corruption problem and holds no 'pip install' line, whatever
\* suggested plugins are missing.
C12_CapableBranch ==
    (MessageReturned /\ CapableInReport # {}) =>
        /\ "This may indicate a corrupt file or incompatible format variant." \in Kinds(msg)
        /\ InstallNames(msg) = <<>>

\* C13: if the report holds at least one installed plugin, none of them is
\* capable for the file, and at least one suggested plugin is neither core
\* nor installed, the message says that the installed plugins failed to read
\* the file and lists exactly the non-core, not-installed suggested plugins
\* as alternatives.
C13_InstalledButFailed ==
    (MessageReturned /\ InReport # {} /\ CapableInReport = {} /\ InstallableOfResult # <<>>) =>
        /\ msg[1] = Piece("Installed plugin", Sorted(InReport))
        /\ msg[2] = Piece("failed to read", PathName(path))
        /\ msg[3].k = "Try one of these alternatives:"
        /\ InstallNames(msg) = InstallableOfResult

C13_Witness ==
    /\ MessageReturned
    /\ PathName(path) = <<"stack", "tiff">>
    /\ DOMAIN report.entries = {"ArrayLike", "bioio-tifffile"}
    /\ ~report.entries["bioio-tifffile"].supported
    /\ msg[1] = Piece("Installed plugin", <<"bioio-tifffile">>)
    /\ InstallNames(msg) = <<"bioio-tiff-glob">>

\* C14: if the suggested list is non-empty, every suggested plugin is flagged
\* core and none of them is in the feasibility report, the message is the
\* 'should already be installed' one: it names the file, tells to check the
\* installation and to open an issue at the project, and holds no
\* 'pip install' line.
C14_CoreOnly ==
    ( /\ MessageReturned
      /\ result # <<>>
      /\ \A n \in Range(NamesOf(result)) : FlaggedCore(n) /\ n \notin DOMAIN report.entries ) =>
        /\ msg[1] = Piece("Required plugins for", PathName(path))
        /\ msg[2].k = "should already be installed"
        /\ "check your installation or open an issue at https://github.com/ndev-kit/ndevio"
              \in Kinds(msg)
        /\ InstallNames(msg) = <<>>

C14_Witness ==
    /\ MessageReturned
    /\ PathName(path) = <<"stack", "ome", "tiff">>
    /\ NamesOf(result) = <<"bioio-ome-tiff">>
    /\ DOMAIN report.entries = {"bioio-czi"}
    /\ msg[1] = Piece("Required plugins for", <<"stack", "ome", "tiff">>)
    /\ Len(msg) = 3

\* C15: for every path and feasibility report, the message holds an
\* 'Install: pip install X' line for a plugin X if and only if X is suggested
\* for the path, is not flagged core and is not in the report; a core or an
\* installed plugin is never offered for installation.
C15_InstallLines ==
    MessageReturned =>
        /\ Range(InstallNames(msg)) \subseteq PluginNames
        /\ \A X \in PluginNames :
              X \in Range(InstallNames(msg))
                 <=> ( /\ X \in Range(NamesOf(result))
                       /\ ~FlaggedCore(X)
                       /\ X \notin DOMAIN report.entries )

C15_Witness ==
    /\ MessageReturned
    /\ PathName(path) = <<"stack", "czi">>
    /\ report = NoReport
    /\ msg[1] = Piece("To read", <<"stack", "czi">>)
    /\ InstallNames(msg) = <<"bioio-czi">>

----------------------------------------------------------------------------
(* Claims about ReaderPluginManager.                                       *)

\* C9: for every feasibility report, installed_plugins is exactly the set of
\* the report's keys without the sentinel 'ArrayLike', whatever the supported
\* flags: 'ArrayLike' is never installed, and a plugin whose entry has
\* supported = false is installed.
C9_InstalledPlugins ==
    mgr_op = "installed_plugins" =>
        /\ mgr_ret.exc = ""
        /\ mgr_ret.set = DOMAIN mgr_cache.report \ {"ArrayLike"}
        /\ "ArrayLike" \notin mgr_ret.set
        /\ \A name \in DOMAIN mgr_cache.report :
              (name # "ArrayLike" /\ ~mgr_cache.report[name].supported) => name \in mgr_ret.set

C9_Witness ==
    /\ mgr_op = "installed_plugins"
    /\ DOMAIN mgr_cache.report = {"ArrayLike", "bioio-czi"}
    /\ ~mgr_cache.report["bioio-czi"].supported
    /\ mgr_ret.set = {"bioio-czi"}

\* The suggested plugin names of the manager's path, without the core and
\* the installed ones, in the order of the suggestion.
FilteredSuggestion ==
    IF mgr_path = NoPath
    THEN <<>>
    ELSE SelectSeq(SuggestedNames(BIOIO_PLUGINS, _EXTENSION_TO_PLUGIN, mgr_path),
                   LAMBDA n : /\ ~IsCore(BIOIO_PLUGINS[n])
                              /\ n \notin installed_plugins(mgr_cache.report))

\* C10: for every path and feasibility report, installable_plugins is the
\* suggested list in the same order without the core and the installed
\* plugins; it is empty when the manager has no path.
C10_InstallablePlugins ==
    mgr_op = "installable_plugins" =>
        /\ mgr_ret.exc = ""
        /\ mgr_ret.list = FilteredSuggestion

\* The installed plugins of the manager: the names of its report without
\* the sentinel.
InstalledOfManager == DOMAIN mgr_cache.report \ {"ArrayLike"}

\* The preferred reader, if it is one of the plugins of S, then the plugins of
\* BIOIO_PLUGINS in declaration order that are in S, without the preferred one.
PreferredThenDeclared(S) ==
    LET rest == SelectSeq(PluginOrder, LAMBDA n : n \in S /\ n # mgr_arg)
    IN  (IF mgr_arg \in S THEN << <<mgr_arg>> >> ELSE <<>>)
        \o [i \in 1..Len(rest) |-> <<rest[i]>>]

\* The list has no duplicate and holds only installed plugins.
NoDuplicateOnlyInstalled(list) ==
    /\ \A i, j \in DOMAIN list : list[i] = list[j] => i = j
    /\ \A i \in DOMAIN list : list[i][1] \in InstalledOfManager

\* C16, as stated: get_priority_list(preferred) returns the preferred reader
\* first if and only if it is installed, followed by the plugins of
\* BIOIO_PLUGINS in declaration order restricted to the installed ones and
\* without the preferred one; the list has no duplicate, holds only installed
\* plugins, and a preferred reader that is not installed is skipped.
C16_PriorityList ==
    mgr_op = "get_priority_list" =>
        /\ mgr_ret.exc = ""
        /\ mgr_ret.list = PreferredThenDeclared(InstalledOfManager)
        /\ NoDuplicateOnlyInstalled(mgr_ret.list)

\* C16, amended: the same over the installed plugins whose module can be
\* imported: the preferred reader is first if and only if it is installed and
\* importable, and an installed plugin whose import fails is left out.
C16_PriorityListImportable ==
    mgr_op = "get_priority_list" =>
        /\ mgr_ret.exc = ""
        /\ mgr_ret.list = PreferredThenDeclared(InstalledOfManager \ unimportable)
        /\ NoDuplicateOnlyInstalled(mgr_ret.list)

C16_Witness ==
    /\ mgr_op = "get_priority_list"
    /\ mgr_arg = "bioio-ome-tiff"
    /\ DOMAIN mgr_cache.report = {"bioio-czi", "bioio-ome-tiff"}
    /\ unimportable = {}
    /\ mgr_ret.list = << <<"bioio-ome-tiff">>, <<"bioio-czi">> >>

\* C17: for one manager with a path, any sequence of reads of
\* feasibility_report, installed_plugins and installable_plugins and of calls
\* of get_priority_list and get_installation_message calls bioio's
\* plugin_feasibility_report at most once; for a manager without a path it is
\* never called and the report is the empty mapping.
C17_ReportComputedOnce ==
    /\ eco_calls <= 1
    /\ mgr_path = NoPath =>
          /\ eco_calls = 0
          /\ mgr_cache.has => DOMAIN mgr_cache.report = {}
    /\ (mgr_op = "feasibility_report" /\ mgr_path = NoPath) => mgr_ret.set = {}

C17_Witness ==
    /\ mgr_op = "get_priority_list"
    /\ mgr_path # NoPath
    /\ eco_calls = 1
    /\ mgr_cache.has
    /\ DOMAIN mgr_cache.report = {"ArrayLike", "bioio-tifffile"}
    /\ mgr_ret.list = << <<"bioio-tifffile">> >>

\* C11: bioio-tifffile is handled as a core plugin: for a '.tiff' path with
\* no plugin installed (the report holds only 'ArrayLike'),
\* installable_plugins contains bioio-tiff-glob and none of bioio-ome-tiff,
\* bioio-imageio, bioio-ome-zarr and bioio-tifffile.
C11_TifffileIsCore ==
    ( /\ mgr_op = "installable_plugins"
      /\ Lower(PathSuffix(PathName(mgr_path))) = <<"tiff">>
      /\ DOMAIN mgr_cache.report = {"ArrayLike"} ) =>
        /\ mgr_ret.exc = ""
        /\ "bioio-tiff-glob" \in Range(mgr_ret.list)
        /\ Range(mgr_ret.list) \cap {"bioio-ome-tiff", "bioio-imageio", "bioio-ome-zarr",
                                     "bioio-tifffile"} = {}

----------------------------------------------------------------------------
(* Claims about nImage.__init__.                                           *)

\* The reader the constructor resolved for its arguments.
Resolved == _resolve_reader(image, reader, settings, env_installed)

\* An attempt with a forced reader, and one with reader=None.
IsForced(a) == a.reader # NoReader

IsDefault(a) == a.reader = NoReader

\* C6: when the attempt with an explicit reader, or with an installed
\* preferred reader, raised UnsupportedFileFormatError and the attempt with
\* reader=None succeeded, construction ends with an opened image and no
\* exception; after such a forced attempt the constructor raises only once
\* the attempt with reader=None was made and did not succeed.
C6_FallbackOpens ==
    /\ ( /\ Len(attempts) = 2
         /\ IsForced(attempts[1]) /\ attempts[1].outcome = "unsupported"
         /\ IsDefault(attempts[2]) /\ attempts[2].outcome = "ok" )
       => (pc = "opened" /\ raised = NoException /\ instance.built)
    /\ ( /\ pc = "raised"
         /\ Len(attempts) >= 1
         /\ IsForced(attempts[1]) /\ attempts[1].outcome = "unsupported" )
       => (Len(attempts) = 2 /\ IsDefault(attempts[2]) /\ attempts[2].outcome # "ok")

C6_Witness ==
    /\ pc = "opened"
    /\ reader = NoReader
    /\ settings.preferred_reader = "bioio-ome-tiff"
    /\ "bioio-ome-tiff" \in env_installed
    /\ PathName(image.path) = <<"stack", "czi">>
    /\ Len(attempts) = 2
    /\ attempts[1] = [reader |-> <<"bioio-ome-tiff">>, outcome |-> "unsupported"]
    /\ attempts[2] = [reader |-> NoReader, outcome |-> "ok"]
    /\ instance = [built |-> TRUE, has_path |-> TRUE, path |-> image.path]

\* C7: a construction makes at most two open attempts, the forced one first
\* and only when an explicit or preferred reader was resolved, the one with
\* reader=None after it only when the forced one raised
\* UnsupportedFileFormatError; UnsupportedFileFormatError leaves the
\* constructor only after the attempt with reader=None failed with it; no
\* attempt is repeated.
C7_TwoAttempts ==
    /\ Len(attempts) <= 2
    /\ \A i \in DOMAIN attempts :
          IsForced(attempts[i]) =>
             /\ i = 1
             /\ attempts[i].reader = Resolved
             /\ \/ reader # NoReader
                \/ /\ image.is_path
                   /\ settings.preferred_reader # ""
                   /\ settings.preferred_reader \in env_installed
    /\ (Len(attempts) >= 1 /\ Resolved # NoReader) => IsForced(attempts[1])
    /\ Len(attempts) = 2 =>
          /\ IsForced(attempts[1]) /\ attempts[1].outcome = "unsupported"
          /\ IsDefault(attempts[2])
    /\ raised.exc = "UnsupportedFileFormatError" =>
          /\ attempts # <<>>
          /\ IsDefault(attempts[Len(attempts)])
          /\ attempts[Len(attempts)].outcome = "unsupported"

C7_Witness ==
    /\ pc = "raised"
    /\ raised.exc = "UnsupportedFileFormatError"
    /\ Len(attempts) = 2
    /\ attempts[1] = [reader |-> <<"bioio-ome-tiff", "bioio-tifffile">>, outcome |-> "unsupported"]
    /\ attempts[2] = [reader |-> NoReader, outcome |-> "unsupported"]

\* Every open attempt of the construction failed with an unsupported format.
EveryAttemptUnsupported ==
    /\ attempts # <<>>
    /\ \A i \in DOMAIN attempts : attempts[i].outcome = "unsupported"

\* C8: when every open attempt fails with unsupported-format, the raised
\* error carries the installation-suggestion message if and only if the image
\* argument is a path and suggest_reader_plugins is true; for array input no
\* plugin manager is consulted and the error of bioio is raised again.
C8_SuggestionsForPathsOnly ==
    (pc = "raised" /\ EveryAttemptUnsupported) =>
        /\ (raised.exc = "UnsupportedFileFormatError" /\ raised.has_msg_extra)
              <=> (image.is_path /\ settings.suggest_reader_plugins)
        /\ ~image.is_path =>
              /\ raised = BioioException("unsupported")
              /\ mgr_path = NoPath /\ mgr_op = "new" /\ eco_calls = 0

----------------------------------------------------------------------------
(* Claims about layer types.                                               *)

\* The name the resolution is applied to: the argument, '' when it is absent.
ResolvedName == IF layer_args.channel_name.some THEN layer_args.channel_name.v ELSE <<>>

\* The lower-cased name holds the keyword kw as a substring.
HoldsKeyword(n, kw) ==
    \E i \in 0..Len(n) :
        /\ i + Len(kw) <= Len(n)
        /\ \A j \in 1..Len(kw) : LowerChar(n[i + j]) = kw[j]

\* The words that mark a channel as label-like.
LabelWords ==
    { <<"l", "a", "b", "e", "l">>, <<"m", "a", "s", "k">>, <<"s", "e", "g">>,
      <<"s", "e", "g", "m", "e", "n", "t", "a", "t", "i", "o", "n">>, <<"r", "o", "i">> }

\* The three tiers: the global override, the per-channel entry, the keywords.
ThreeTier ==
    IF layer_args.layer_type.some
    THEN layer_args.layer_type.v
    ELSE IF layer_args.channel_types.some
            /\ ResolvedName \in DOMAIN layer_args.channel_types.v
    THEN layer_args.channel_types.v[ResolvedName]
    ELSE IF \E kw \in LabelWords : HoldsKeyword(ResolvedName, kw)
    THEN "labels"
    ELSE "image"

\* C20: layer-type resolution is three-tier for every channel name: the
\* global override when it is set; otherwise the channel_types entry when the
\* name is a key of it; otherwise 'labels' if the lower-cased name holds one
\* of 'label', 'mask', 'segmentation', 'seg', 'roi' as a substring and
\* 'image' if not; an absent or empty name without overrides gives 'image'.
C20_ThreeTierResolution ==
    /\ layer_op \in {"resolve_layer_type", "_resolve_layer_type"} => layer_ret = ThreeTier
    /\ ( /\ layer_op \in {"resolve_layer_type", "_resolve_layer_type"}
         /\ ResolvedName = <<>>
         /\ ~layer_args.layer_type.some
         /\ ~layer_args.channel_types.some ) => layer_ret = "image"

C20_Witness ==
    /\ layer_op = "resolve_layer_type"
    /\ layer_args.channel_name = Some(<<"S", "E", "G", "_", "c", "h", "a", "n", "n", "e", "l">>)
    /\ ~layer_args.layer_type.some
    /\ layer_args.channel_types.some
    /\ DOMAIN layer_args.channel_types.v = {<<"n", "u", "c", "l", "e", "i", "_", "m", "a", "s", "k">>}
    /\ layer_ret = "labels"

----------------------------------------------------------------------------
(* Claims about get_layer_data_tuples.                                     *)

\* get_layer_data_tuples has just been called.
TuplesCalled == layer_op = "get_layer_data_tuples"

\* The reader delivers the pixel data: the image is no mosaic, or its reader
\* can stitch the mosaic.
PixelDataDelivered == "M" \notin Range(nimg.order) \/ nimg.stitch

\* The dimensions of more than one element, in the reader's order, that are
\* neither the mosaic tiles nor the channels nor the samples.
SpatioTemporalAxes ==
    SelectSeq(nimg.order, LAMBDA d : nimg.sizes[d] > 1 /\ d \notin {"M", "C", "S"})

\* The physical scale of an axis, 1 when the image has none for it.
ScaleOrOne(d) == IF nimg.scale[d] = 0 THEN 1 ELSE nimg.scale[d]

ExpectedTypeOf(n) ==
    IF layer_args.layer_type.some
    THEN layer_args.layer_type.v
    ELSE IF layer_args.channel_types.some /\ n \in DOMAIN layer_args.channel_types.v
    THEN layer_args.channel_types.v[n]
    ELSE IF \E kw \in LabelWords : HoldsKeyword(n, kw)
    THEN "labels"
    ELSE "image"

\* The channel names of the scenario.
Membrane == <<"m", "e", "m", "b", "r", "a", "n", "e">>

NucleiMask == <<"n", "u", "c", "l", "e", "i", "_", "m", "a", "s", "k">>

\* No override is passed to the call.
NoOverrides ==
    /\ ~layer_args.layer_type.some
    /\ ~layer_args.channel_types.some
    /\ ~layer_args.channel_kwargs.some

C21_GlobalTypeEverywhere ==
    (TuplesCalled /\ layer_args.layer_type.some /\ PixelDataDelivered) =>
        /\ layer_ret.exc = ""
        /\ Len(layer_ret.tuples) >= 1
        /\ \A k \in DOMAIN layer_ret.tuples :
              layer_ret.tuples[k].layer_type = layer_args.layer_type.v

----------------------------------------------------------------------------
(* Claims about the layer properties.                                      *)

\* The axis labels of the image: the squeezed dimensions of its data without
\* Channel and Samples.
AxisLabelsOfImage ==
    SelectSeq(nimg.order,
              LAMBDA d : nimg.sizes[d] > 1 /\ d \notin {"M", "C", "S"})

\* The read of the scale, or of the dimension properties, that the last
\* property read made raised one of the three errors.
ScaleReadFailed ==
    layer_op = "layer_scale" /\ nimg.scale_raises \in {"AttributeError", "KeyError", "TypeError"}

UnitsReadFailed ==
    layer_op = "layer_units" /\ nimg.props_raises \in {"AttributeError", "KeyError", "TypeError"}

\* C22: layer_scale and layer_units never raise when reading the image's
\* scale or dimension metadata raises a missing-attribute, missing-key or
\* type error: they return 1.0 (scale) and None (unit) for every axis, and in
\* every case each has exactly one entry per entry of layer_axis_labels.
C22_ScaleUnitsDegrade ==
    (layer_op \in {"layer_scale", "layer_units"} /\ PixelDataDelivered) =>
        /\ ScaleReadFailed =>
              /\ layer_ret.exc = ""
              /\ layer_ret.v = [i \in 1..Len(AxisLabelsOfImage) |-> 1]
        /\ UnitsReadFailed =>
              /\ layer_ret.exc = ""
              /\ layer_ret.v = [i \in 1..Len(AxisLabelsOfImage) |-> ""]
        /\ layer_ret.exc = "" => Len(layer_ret.v) = Len(AxisLabelsOfImage)

\* The part of C22 about the missing attribute alone.
C22_AttributeErrorDegrades ==
    (layer_op \in {"layer_scale", "layer_units"} /\ PixelDataDelivered) =>
        /\ (layer_op = "layer_scale" /\ nimg.scale_raises = "AttributeError") =>
              /\ layer_ret.exc = ""
              /\ layer_ret.v = [i \in 1..Len(AxisLabelsOfImage) |-> 1]
        /\ (layer_op = "layer_units" /\ nimg.props_raises = "AttributeError") =>
              /\ layer_ret.exc = ""
              /\ layer_ret.v = [i \in 1..Len(AxisLabelsOfImage) |-> ""]
        /\ layer_ret.exc = "" => Len(layer_ret.v) = Len(AxisLabelsOfImage)

\* C23: layer_metadata never raises when reading ome_metadata raises
\* NotImplementedError, ValueError, TypeError or KeyError: it returns a
\* mapping that has 'bioimage' and 'raw_image_metadata' and no 'ome_metadata'
\* key, logging exactly one warning for ValueError, TypeError and KeyError and
\* nothing for NotImplementedError; 'ome_metadata' is present exactly when
\* reading it raised nothing.
C23_MetadataDegrades ==
    layer_op = "layer_metadata" =>
        /\ nimg.ome_raises \in {"NotImplementedError", "ValueError", "TypeError", "KeyError"} =>
              /\ layer_ret.exc = ""
              /\ {"bioimage", "raw_image_metadata"} \subseteq DOMAIN layer_ret.v
              /\ "ome_metadata" \notin DOMAIN layer_ret.v
              /\ layer_log = (IF nimg.ome_raises = "NotImplementedError" THEN 0 ELSE 1)
        /\ nimg.ome_raises = "" =>
              /\ layer_ret.exc = ""
              /\ {"bioimage", "raw_image_metadata", "ome_metadata"} = DOMAIN layer_ret.v
              /\ layer_log = 0
        /\ layer_ret.exc = "" =>
              ("ome_metadata" \in DOMAIN layer_ret.v <=> nimg.ome_raises = "")

C23_Witness ==
    /\ layer_op = "layer_metadata"
    /\ nimg.ome_raises = "ValueError"
    /\ layer_ret.exc = ""
    /\ DOMAIN layer_ret.v = {"bioimage", "raw_image_metadata"}
    /\ layer_log = 1

----------------------------------------------------------------------------
(* Claims about the OME-Zarr compatibility patches.                        *)

\* C24: constructing an nImage whose selected reader is the OME-Zarr reader
\* applies apply_ome_zarr_compat_patches exactly once for that instance, and
\* constructing an nImage with any other reader never applies it.
C24_CompatPatchesOnce ==
    (pc = "opened" /\ instance.built) =>
        compat_calls = (IF selected_reader = "bioio-ome-zarr" THEN 1 ELSE 0)

----------------------------------------------------------------------------
(* Claims about the napari reader.                                         *)

\* Some registered plugin declares an extension of the file name handed to
\* napari_get_reader: a compound extension the lower-cased name ends with, or
\* its lower-cased suffix.
ExtensionRecognized ==
    \E P \in PluginNames : \E i \in DOMAIN BIOIO_PLUGINS[P].extensions :
        LET ext == BIOIO_PLUGINS[P].extensions[i]
        IN  \/ (Len(ext) >= 2 /\ EndsWith(Lower(PathName(rd_input.path)), ext))
            \/ Lower(PathSuffix(PathName(rd_input.path))) = ext

\* C25: napari_get_reader never raises and never opens the file: it returns
\* None when given a list of paths or a path whose extension no registered
\* plugin declares, and a callable reader function for every path whose
\* extension is recognized, including when the plugin needed is not installed
\* (the failure then surfaces only when the returned function is called).
C25_GetReaderNeverOpens ==
    /\ rd_pc = "got_reader" =>
          /\ rd_exc = ""
          /\ rd_opened = 0
          /\ rd_reader.callable <=> (~rd_input.is_list /\ ExtensionRecognized)
    /\ rd_exc # "" => (rd_pc = "raised" /\ rd_reader.callable)
    /\ rd_opened > 0 => rd_pc \notin {"start", "got_reader"}

C25_Witness ==
    /\ rd_pc = "raised"
    /\ PathName(rd_input.path) = <<"stack", "nd2">>
    /\ ~rd_input.readable
    /\ rd_reader.callable
    /\ rd_exc = "UnsupportedFileFormatError"
    /\ rd_opened = 0

\* The reader function has returned.
ReaderReturned == rd_pc \in {"returned", "returned_none_tuple"}

\* The layer records one scene of the opened image gives: one for RGB data,
\* one per channel otherwise.
RecordsPerScene ==
    IF "S" \in Range(nimg.order) THEN 1 ELSE Len(nimg.channel_names)

\* The scene a layer record is named after ("" for a file of one scene).
SceneOfName(name) ==
    LET at == {i \in DOMAIN name : name[i].k = "current_scene"}
    IN  IF at = {} THEN "" ELSE name[CHOOSE i \in at : TRUE].v[1]

\* The indices of all scenes in scene order.
EverySceneIndex == [k \in 1..Len(nimg.scenes) |-> k - 1]

\* C28: napari_reader_function chooses the scene mode in a fixed order: if
\* the image has exactly one scene or open_first_scene_only is true, it
\* returns only the current scene's records (open_first_scene_only wins over
\* open_all_scenes); otherwise, if open_all_scenes is true, it visits every
\* scene exactly once in the image's scene order and returns the
\* concatenation of their records; otherwise it docks the scene-selection
\* widget and returns [(None,)] without building any layer record.
C28_SceneModeOrder ==
    ReaderReturned =>
        IF Len(nimg.scenes) = 1 \/ rd_reader.open_first_scene_only
        THEN /\ rd_pc = "returned"
             /\ rd_visited = <<>>
             /\ rd_calls = <<0>>
             /\ rd_docked = 0
             /\ Len(rd_layers) = RecordsPerScene
             /\ \A k \in DOMAIN rd_layers :
                   SceneOfName(rd_layers[k].meta.name)
                       = (IF Len(nimg.scenes) = 1 THEN "" ELSE nimg.scenes[1])
        ELSE IF rd_reader.open_all_scenes
        THEN /\ rd_pc = "returned"
             /\ rd_visited = nimg.scenes
             /\ rd_calls = EverySceneIndex
             /\ rd_docked = 0
             /\ Len(rd_layers) = Len(nimg.scenes) * RecordsPerScene
             /\ \A k \in DOMAIN rd_layers :
                   SceneOfName(rd_layers[k].meta.name)
                       = nimg.scenes[((k - 1) \div RecordsPerScene) + 1]
        ELSE /\ rd_pc = "returned_none_tuple"
             /\ rd_visited = <<>>
             /\ rd_calls = <<>>
             /\ rd_layers = <<>>
             /\ rd_docked = 1

C28_Witness ==
    /\ rd_pc = "returned"
    /\ rd_input.scene_handling = "View First Scene Only"
    /\ rd_input.open_first_scene_only = [some |-> TRUE, v |-> FALSE]
    /\ rd_input.open_all_scenes = [some |-> TRUE, v |-> TRUE]
    /\ Len(nimg.scenes) = 3
    /\ rd_visited = <<"Image:0", "Image:1", "Image:2">>
    /\ Len(rd_layers) = 6

\* C29: the cached layer data never outlives a scene change: after
\* set_scene(s) on an nImage, get_layer_data_tuples with in_memory left
\* unspecified returns records built from the pixel data of scene s, so in
\* open-all-scenes mode the records produced for each scene carry that
\* scene's own data and not the data loaded for an earlier scene.
C29_SceneDataFollowsScene ==
    (rd_visited # <<>> /\ rd_exc = "" /\ ~rd_reader.in_memory.some) =>
        /\ _layer_data.scene = nimg.current_scene_index
        /\ \A k \in DOMAIN rd_layers :
              rd_layers[k].data.scene = (k - 1) \div RecordsPerScene

\* The records of C29 when in_memory is given: every scene is loaded anew.
C29_ReloadedWhenInMemoryGiven ==
    (rd_visited # <<>> /\ rd_exc = "" /\ rd_reader.in_memory.some) =>
        /\ _layer_data.scene = nimg.current_scene_index
        /\ \A k \in DOMAIN rd_layers :
              rd_layers[k].data.scene = (k - 1) \div RecordsPerScene

----------------------------------------------------------------------------
(* Claims about colormap and blending.                                     *)

\* The image of the call is RGB.
IsRgb == "S" \in Range(nimg.order)

\* The channel name the k-th record of the call was built for (None for the
\* RGB record and for a single channel without a channel coordinate).
ChannelNameOfRecord(k) ==
    IF IsRgb THEN None
    ELSE IF Len(nimg.channel_names) > 1 THEN Some(nimg.channel_names[k])
    ELSE IF nimg.channel_coord THEN Some(nimg.channel_names[1])
    ELSE None

\* The napari kwargs the per-channel override of the call supplies for the
\* k-th record (the empty mapping when it supplies none).
OverrideOfRecord(k) ==
    LET n == ChannelNameOfRecord(k)
    IN  IF /\ layer_args.channel_kwargs.some
           /\ n.some /\ n.v # <<>>
           /\ n.v \in DOMAIN layer_args.channel_kwargs.v
        THEN layer_args.channel_kwargs.v[n.v]
        ELSE <<>>

\* The blending of a channel by its index among the channels of the image.
BlendingByIndex(k) ==
    IF k - 1 > 0 /\ Len(layer_ret.tuples) > 1 THEN "additive" ELSE "translucent_no_depth"

\* C26: colormap and blending are index-dependent and image-only: a non-RGB
\* record of type 'image' gets blending 'translucent_no_depth' when its
\* channel index is 0 or the image has a single channel and 'additive' when
\* its index is > 0 among N > 1 channels; a record whose type is not 'image',
\* and an RGB record, gets no 'colormap' and no 'blending' key unless a
\* per-channel kwargs override supplies one.
C26_BlendingByIndex ==
    (TuplesCalled /\ layer_ret.exc = "") =>
        \A k \in DOMAIN layer_ret.tuples :
            LET t == layer_ret.tuples[k]
                given == DOMAIN OverrideOfRecord(k) \cap {"colormap", "blending"}
            IN  IF ~IsRgb /\ t.layer_type = "image"
                THEN /\ {"colormap", "blending"} \subseteq DOMAIN t.meta
                     /\ "blending" \notin given => t.meta.blending = BlendingByIndex(k)
                     /\ "colormap" \notin given =>
                           t.meta.colormap
                               = get_colormap_for_channel(k - 1, Len(layer_ret.tuples))
                ELSE /\ DOMAIN t.meta \cap {"colormap", "blending"} = given
                     /\ \A key \in given : t.meta[key] = OverrideOfRecord(k)[key]

C26_Witness ==
    /\ TuplesCalled
    /\ nimg.channel_names = <<Membrane, NucleiMask>>
    /\ layer_args.channel_types.some
    /\ layer_args.channel_kwargs.some
    /\ Len(layer_ret.tuples) = 2
    /\ layer_ret.tuples[1].layer_type = "image"
    /\ layer_ret.tuples[1].meta.blending = "translucent_no_depth"
    /\ layer_ret.tuples[2].layer_type = "points"
    /\ DOMAIN layer_ret.tuples[2].meta \cap {"colormap", "blending"} = {"blending"}
    /\ layer_ret.tuples[2].meta.blending = "opaque"

----------------------------------------------------------------------------
(* Claims about the report and the manager's path.                         *)

\* A member that derives its answer from the feasibility report has just
\* been read.
DerivedFromReport ==
    mgr_op \in {"feasibility_report", "installed_plugins", "installable_plugins",
                "get_installation_message", "get_priority_list"}

\* C27: a feasibility report is never reused across file paths: at every
\* point the report from which a ReaderPluginManager derives
\* installed_plugins, installable_plugins and its installation message is the
\* report the ecosystem produced for the manager's current path, including
\* after the manager's path attribute has been assigned a different path.
C27_ReportOfCurrentPath ==
    (DerivedFromReport /\ mgr_path # NoPath /\ mgr_cache.has) =>
        report_path = mgr_path

----------------------------------------------------------------------------
(* Claims about the installer widget.                                      *)

\* The handler the emission calls next, its plugin, and what event.get
\* makes of the event in flight.
CalledHandler == Head(wg_pending)

CalledPlugin == wg_handlers[CalledHandler].plugin_name

EventExitCode == IF wg_event.has_exit_code THEN wg_event.exit_code ELSE 1

EventPkgs == IF wg_event.has_pkgs THEN wg_event.pkgs ELSE {}

\* The step is one call of a handler by the emission under way.
HandlerCalled == wg_event.emitting /\ wg_pending' = Tail(wg_pending)

\* One step of the widget, as the claim describes it.
C30_Step ==
    /\ (_on_install_clicked /\ wg_select = "") =>
          /\ wg_status' = StatusNoPlugin
          /\ wg_calls' = wg_calls
          /\ wg_handlers' = wg_handlers
    /\ wg_calls' # wg_calls =>
          /\ wg_select \in WidgetChoices
          /\ wg_calls' = wg_calls \o
                << [op |-> "connect", plugin_name |-> wg_select],
                   [op |-> "install_plugin", plugin_name |-> wg_select] >>
          /\ wg_handlers' = Append(wg_handlers,
                                   [plugin_name |-> wg_select, connected |-> TRUE])
    /\ (HandlerCalled /\ CalledPlugin \notin EventPkgs) =>
          /\ wg_status' = wg_status
          /\ wg_handlers[CalledHandler].connected
          /\ wg_handlers' = wg_handlers
          /\ wg_exc' = ""
    /\ (HandlerCalled /\ CalledPlugin \in EventPkgs) =>
          /\ wg_handlers[CalledHandler].connected
          /\ wg_status' = IF EventExitCode = 0
                          THEN StatusSuccess(CalledPlugin)
                          ELSE StatusFailed(CalledPlugin, EventExitCode)
          /\ wg_handlers' = [wg_handlers EXCEPT ![CalledHandler].connected = FALSE]
          /\ wg_exc' = ""
    /\ wg_status' # wg_status =>
          \/ _on_install_clicked
          \/ HandlerCalled /\ CalledPlugin \in EventPkgs
                           /\ wg_handlers[CalledHandler].connected
    /\ \A h \in DOMAIN wg_handlers :
          ~wg_handlers[h].connected => ~wg_handlers'[h].connected

\* C30: installer widget completion handling: an install is enqueued only
\* when a plugin P is selected (otherwise the status becomes 'No plugin
\* selected' and nothing is enqueued), and the completion handler is
\* connected before the install is enqueued; a completion event whose package
\* list does not contain P leaves the status unchanged and the handler
\* connected; the first completion event for P sets the status to the success
\* text if the exit code is 0 and to the failure text with the exit code
\* otherwise, never raising, and then disconnects the handler, so that later
\* events no longer change the status through it.
C30_CompletionHandling == [][C30_Step]_vars

\* An install was enqueued after its handler was connected, a completion
\* event for the plugin has arrived with a non-zero exit code, and the handler
\* is disconnected while another handler still waits.
C30_Witness ==
    /\ wg_pc = "open"
    /\ ~wg_event.emitting
    /\ Len(wg_handlers) = 2
    /\ ~wg_handlers[1].connected
    /\ wg_handlers[2].connected
    /\ wg_status = StatusFailed(wg_handlers[1].plugin_name, 2)
    /\ wg_calls[2] = [op |-> "install_plugin", plugin_name |-> wg_handlers[1].plugin_name]

====
